---- MODULE Spec2Model ----
(***************************************************************************)
(* Fixed-region heap allocators of simple_alloc: the bump engine (mutex    *)
(* guarded and lock-free) and the buddy engine (mutex guarded).            *)
(*                                                                         *)
(* Addresses are AddrBits-bit unsigned integers (usize); arithmetic that   *)
(* the source performs unchecked wraps modulo 2^AddrBits in a release      *)
(* build and panics in a debug build.                                      *)
(***************************************************************************)
EXTENDS Integers, Sequences, FiniteSets, Bags, TLC

\* ------------------------------------------------------------------ bounds
AddrBits == 6
NThreads == 2
MaxLive == 3
MaxOps == 5

\* ------------------------------------------------- buddy_alloc/locked.rs
PAGE_SIZE == 8
MIN_ORDER == 0
MAX_ORDER == 22

MaxAddr == 2^AddrBits - 1
Threads == 1..NThreads

\* A layout is core::alloc::Layout: a size and a power-of-two alignment.
Layout(s, a) == [size |-> s, align |-> a]

\* ------------------------------------------------------- common.rs helpers
\* <*const u8>::align_offset: the bytes to add to reach the next multiple.
align_offset(addr, align) == (align - (addr % align)) % align

\* `addr + offset` overflows usize: a panic in a debug build.
align_up_overflows(addr, align) == addr + align_offset(addr, align) > MaxAddr

\* align_up as a release build computes it (the addition wraps).
align_up(addr, align) == (addr + align_offset(addr, align)) % (MaxAddr + 1)

\* usize::checked_add; -1 stands for None.
checked_add(a, b) == IF a + b > MaxAddr THEN -1 ELSE a + b

\* usize::checked_sub(..).unwrap_or_default()
sub_or_default(a, b) == IF a >= b THEN a - b ELSE 0

\* Byte ranges [p, p+s) and [q, q+t) share a byte.
Overlap(p, s, q, t) == p < q + t /\ q < p + s

VARIABLES
    lbump,      \* LocklessBump: [start, end, next, allocations]
    pc,         \* per thread: position inside try_allocate / try_deallocate
    treg,       \* per thread: the locals of the running call
    llive,      \* bag of <<address, size>> handed out and not yet returned
    lghost,     \* history of the lock-free engine the properties read
    bump,       \* LockedBump behind its Mutex: [start, end, next, allocations]
    build,      \* "debug" or "release": whether unchecked arithmetic panics or wraps
    blive,      \* bag of <<address, size>> handed out by the locked bump
    bret,       \* the last call on the locked bump: its layout, result and address
    bfailed,    \* some try_allocate on the locked bump has returned an error
    buddy,      \* LockedBuddy behind its Mutex: [base, size, list_areas]
    mem,        \* the `next` word of each node written into memory, by address
    dlive,      \* bag of <<address, layout>> handed out by the buddy engine
    dret,       \* the last call on the buddy engine: its layout, result and address
    dops,       \* calls made on the buddy engine so far
    flist,      \* free list: the (addr, size) of the nodes reached from head.next
    fspan,      \* the backing region given to the free-list engine: [start, end]
    frev,       \* which revision of the free-list engine runs: "locked" or "redo"
    flive,      \* bag of <<address, layout>> handed out by the free-list engine
    fret,       \* the last call on the free-list engine: layout, result, address
    fpend,      \* try_deallocate calls between add_free_region and combine_free_regions
    zpc,        \* per thread: position inside a zeroed call
    zreg,       \* per thread: the block of the running zeroed call
    zdirty,     \* the addresses whose byte is not 0
    zret,       \* the zeroed call that returned last: its result and address
    zstray,     \* a zero write of try_deallocate_zeroed fell on memory not its own
    gret,       \* the last GlobalAlloc call: what it was and what it returned
    gops,       \* GlobalAlloc calls made so far
    uwho,       \* lifecycle: the wrapper the program constructed
    uinit,      \* lifecycle: init has been called on it
    uret,       \* lifecycle: the last try_allocate, its result, and whether init came first
    uops,       \* lifecycle: calls made so far
    cbump,      \* ConstBump<S>: [heap_start, S, offset, allocations]
    cret,       \* the last call on ConstBump and on the lock-free bump run beside it
    clive,      \* blocks the caller of ConstBump holds
    cops        \* calls made on ConstBump so far

lvars == <<lbump, pc, treg, llive, lghost>>
bvars == <<bump, blive, bret, bfailed>>
dvars == <<buddy, mem, dlive, dret, dops>>
fvars == <<flist, fspan, frev, flive, fret, fpend>>
zvars == <<zpc, zreg, zdirty, zret, zstray>>
gvars == <<gret, gops>>
uvars == <<uwho, uinit, uret, uops>>
cvars == <<cbump, cret, clive, cops>>

\* What the operations of one engine leave alone.
XVars == <<gvars, uvars, cvars>>
NotLockless == <<build, bvars, dvars, fvars, zvars, XVars>>
NotBump == <<build, lvars, dvars, fvars, zvars, XVars>>
NotBuddy == <<build, lvars, bvars, fvars, zvars, XVars>>
NotFreeList == <<build, lvars, bvars, dvars, zvars, XVars>>
NotGlobal == <<build, lvars, dvars, fvars, zvars, uvars, cvars>>

vars == <<build, lvars, bvars, dvars, fvars, zvars, XVars>>

\* ============================================================ lock-free bump
\* Layouts the threads request from the lock-free engine.
LLayouts == {Layout(8, 8), Layout(4, 4)}

\* The region given to init: (start, size).
LRegions == {<<8, 16>>}

NoRegs == [layout |-> Layout(0, 1), alloc_start |-> 0, alloc_end |-> 0, prev |-> 0]

\* LocklessBump::new followed by LocklessBump::init(start, size).
LocklessBumpInit(start, size) ==
    [start |-> start, end |-> start + size, next |-> start, allocations |-> 0]

\* LockedBump::new(): the constructed, not yet initialised engine.
LockedBumpNew == [start |-> 0, end |-> 0, next |-> 0, allocations |-> 0]

NoCall == [layout |-> Layout(0, 1), res |-> "none", p |-> 0]

\* The locked bump engine is constructed and not used.
BIdle ==
    /\ bump = LockedBumpNew
    /\ blive = EmptyBag
    /\ bret = NoCall
    /\ bfailed = FALSE

LStart ==
    /\ \E r \in LRegions : lbump = LocklessBumpInit(r[1], r[2])
    /\ pc = [t \in Threads |-> "idle"]
    /\ treg = [t \in Threads |-> NoRegs]
    /\ llive = EmptyBag
    /\ lghost = [ndealloc |-> 0, reset |-> FALSE, owed |-> 0,
                 strayWrite |-> FALSE]

\* The lock-free engine is not used.
LIdle ==
    /\ lbump = LocklessBumpInit(0, 0)
    /\ pc = [t \in Threads |-> "idle"]
    /\ treg = [t \in Threads |-> NoRegs]
    /\ llive = EmptyBag
    /\ lghost = [ndealloc |-> 0, reset |-> FALSE, owed |-> 0, strayWrite |-> FALSE]

Orders == 0..MAX_ORDER

\* LockedBuddy::new()
LockedBuddyNew ==
    [base |-> 0, size |-> 0,
     list_areas |-> [o \in Orders |-> [head |-> 0, nr_free |-> 0]]]

NoMem == [a \in {} |-> 0]

NoBuddyCall == [layout |-> Layout(0, 1), res |-> "none", p |-> 0]

\* The buddy engine is constructed and not used.
DIdle ==
    /\ buddy = LockedBuddyNew
    /\ mem = NoMem
    /\ dlive = EmptyBag
    /\ dret = NoBuddyCall
    /\ dops = 0

\* The free-list engine is constructed and not used.
FIdle ==
    /\ flist = << >>
    /\ fspan = [start |-> 0, end |-> 0]
    /\ frev = "locked"
    /\ flive = EmptyBag
    /\ fret = NoCall
    /\ fpend = 0

NoBlock == [p |-> 0, size |-> 0, wrote |-> {}]
NoZeroed == [op |-> "none", res |-> "none", p |-> 0, cleaned |-> FALSE]

\* No zeroed call is made.
ZIdle ==
    /\ zpc = [t \in Threads |-> "idle"]
    /\ zreg = [t \in Threads |-> NoBlock]
    /\ zdirty = {}
    /\ zret = NoZeroed
    /\ zstray = FALSE

NoGlobalCall == [op |-> "none", ptr |-> 0, res |-> "none", calls |-> 0]

\* No GlobalAlloc call is made.
GIdle ==
    /\ gret = NoGlobalCall
    /\ gops = 0

\* The engines and adapters a specification of one engine does not use.
NoLifecycleCall == [layout |-> Layout(0, 1), res |-> "none", init |-> FALSE]

\* No wrapper's lifecycle is followed.
UIdle ==
    /\ uwho = "none"
    /\ uinit = FALSE
    /\ uret = NoLifecycleCall
    /\ uops = 0

\* ConstBump::new() with the embedded array at heap_start.
ConstBumpNew(heap_start, S) ==
    [heap_start |-> heap_start, S |-> S, offset |-> 0, allocations |-> 0]

NoConstCall == [op |-> "none", layout |-> Layout(0, 1), cres |-> "none", coff |-> 0,
                lres |-> "none", loff |-> 0]

\* No ConstBump is used.
CIdle ==
    /\ cbump = ConstBumpNew(0, 0)
    /\ cret = NoConstCall
    /\ clive = 0
    /\ cops = 0

XIdle == GIdle /\ UIdle /\ CIdle

LInit == LStart /\ BIdle /\ DIdle /\ FIdle /\ ZIdle /\ XIdle /\ build = "release"

InFlight == Cardinality({t \in Threads : pc[t] \in {"a_store", "a_inc"}})

\* try_allocate, first step: load `next`, compute the block, test it against
\* `end` (start and end are immutable after init).  A failing call returns
\* here; `failed` is where the caller goes on an error: "idle" for a caller
\* that carries on, "done" for one that stops at its first error.
LAllocLoad(t, layout, failed) ==
    /\ pc[t] = "idle"
    /\ LET next == lbump.next
           alloc_start == align_up(next, layout.align)
           alloc_end == checked_add(alloc_start, layout.size)
       IN  IF alloc_end = -1
           THEN \* Err(Overflowed)
                /\ pc' = [pc EXCEPT ![t] = failed]
                /\ UNCHANGED treg
           ELSE IF alloc_end > lbump.end
           THEN \* Err(Oom(layout))
                /\ pc' = [pc EXCEPT ![t] = failed]
                /\ UNCHANGED treg
           ELSE /\ pc' = [pc EXCEPT ![t] = "a_store"]
                /\ treg' = [treg EXCEPT ![t] = [layout |-> layout,
                                alloc_start |-> alloc_start,
                                alloc_end |-> alloc_end, prev |-> 0]]
    /\ UNCHANGED <<lbump, llive, lghost, NotLockless>>

\* try_allocate, second step: alloc.next.store(alloc_end).
LAllocStore(t) ==
    /\ pc[t] = "a_store"
    /\ lbump' = [lbump EXCEPT !.next = treg[t].alloc_end]
    /\ pc' = [pc EXCEPT ![t] = "a_inc"]
    /\ UNCHANGED <<treg, llive, lghost, NotLockless>>

\* try_allocate, last step: allocations.fetch_add(1), then
\* NonNull::new(alloc_start).ok_or(Null).
LAllocInc(t) ==
    /\ pc[t] = "a_inc"
    /\ lbump' = [lbump EXCEPT !.allocations = (@ + 1) % (MaxAddr + 1)]
    /\ pc' = [pc EXCEPT ![t] = "idle"]
    /\ IF treg[t].alloc_start = 0
       THEN UNCHANGED llive      \* Err(Null)
       ELSE llive' = llive (+) SetToBag({<<treg[t].alloc_start, treg[t].layout.size>>})
    /\ treg' = [treg EXCEPT ![t] = NoRegs]
    /\ UNCHANGED <<lghost, NotLockless>>

\* The test of try_deallocate taken on the counter's new value instead of the
\* value fetch_sub returned.
LShouldResetOnNewValue(prev) == prev - 1 = 1

\* The test `prev == 1` of try_deallocate.
LShouldReset(prev) == prev = 1

\* try_deallocate, first step: prev = allocations.fetch_sub(1) for a block
\* this caller holds.
LDeallocSub(t, blk) ==
    /\ pc[t] = "idle"
    /\ BagIn(blk, llive)
    /\ llive' = llive (-) SetToBag({blk})
    /\ treg' = [treg EXCEPT ![t] = [NoRegs EXCEPT !.prev = lbump.allocations]]
    /\ lbump' = [lbump EXCEPT !.allocations = (@ - 1) % (MaxAddr + 1)]
    /\ pc' = [pc EXCEPT ![t] = "d_check"]
    /\ lghost' = [lghost EXCEPT !.ndealloc = 1,
                                !.owed = @ + (IF lbump.allocations = 1 THEN 1 ELSE 0)]
    /\ UNCHANGED NotLockless

\* try_deallocate, second step: if prev == 1 { next.store(start) }; Ok(()).
LDeallocReset(t) ==
    /\ pc[t] = "d_check"
    /\ pc' = [pc EXCEPT ![t] = "idle"]
    /\ IF LShouldReset(treg[t].prev)
       THEN /\ lbump' = [lbump EXCEPT !.next = lbump.start]
            /\ lghost' = [lghost EXCEPT !.reset = TRUE, !.owed = @ - 1,
                              !.strayWrite = @ \/ treg[t].prev # 1]
       ELSE UNCHANGED <<lbump, lghost>>
    /\ treg' = [treg EXCEPT ![t] = NoRegs]
    /\ UNCHANGED <<llive, NotLockless>>

LNext ==
    \E t \in Threads :
        \/ \E layout \in LLayouts :
               BagCardinality(llive) + InFlight < MaxLive /\ LAllocLoad(t, layout, "idle")
        \/ LAllocStore(t)
        \/ LAllocInc(t)
        \/ \E blk \in BagToSet(llive) : LDeallocSub(t, blk)
        \/ LDeallocReset(t)

SpecLockless == LInit /\ [][LNext]_vars

\* The race of scenario S6: every thread allocates the same layout until its
\* first error and then stops; nothing is deallocated.
RaceLayout == Layout(4, 4)

RaceNext ==
    \E t \in Threads :
        \/ LAllocLoad(t, RaceLayout, "done")
        \/ LAllocStore(t)
        \/ LAllocInc(t)

SpecRace == LInit /\ [][RaceNext]_vars

\* ======================================================= mutex-guarded bump
\* Every operation of Mutex<LockedBump> runs between self.lock() and the drop
\* of the guard, so each is one atomic step.  A panic aborts the program.

\* Regions given to init, as (start, size): start # 0, size > 0 and
\* start + size < usize::MAX; the last one ends just below the top of the
\* address space.
BRegions == {<<8, 16>>, <<MaxAddr - 13, 12>>}

\* Layouts requested from the locked bump engine.
BLayouts == {Layout(0, 1), Layout(3, 1), Layout(4, 1), Layout(4, 4), Layout(8, 8)}

\* LockedBump::init(heap_start, heap_size) on a new engine.
LockedBumpInit(heap_start, heap_size) ==
    [LockedBumpNew EXCEPT !.start = heap_start,
                          !.end = (heap_start + heap_size) % (MaxAddr + 1),
                          !.next = heap_start]

\* The test `alloc_end >= bump.end`: a block ending exactly at `end` refused.
BOutOfMemoryOffByOne(alloc_end, end) == alloc_end >= end

\* The test `alloc_end > bump.end` of try_allocate.
BOutOfMemory(alloc_end, end) == alloc_end > end

\* try_allocate(layout) on engine state b: the result, the address and the
\* state it leaves.
BAllocate(b, layout, bld) ==
    IF bld = "debug" /\ align_up_overflows(b.next, layout.align)
    THEN [res |-> "panic", p |-> 0, bump |-> b]
    ELSE LET alloc_start == align_up(b.next, layout.align)
             alloc_end == checked_add(alloc_start, layout.size)
         IN  IF alloc_end = -1
             THEN [res |-> "Overflowed", p |-> 0, bump |-> b]
             ELSE IF BOutOfMemory(alloc_end, b.end)
             THEN [res |-> "Oom", p |-> 0, bump |-> b]
             ELSE [res |-> IF alloc_start = 0 THEN "Null" ELSE "Ok",
                   p |-> alloc_start,
                   bump |-> [b EXCEPT !.next = alloc_end,
                                      !.allocations = @ + 1]]

\* The test `allocations == 1` in place of `allocations == 0`.
BCounterIsOne(allocations) == allocations = 1

\* The test `bump.allocations == 0` of try_deallocate, on the new counter.
BCounterIsZero(allocations) == allocations = 0

\* try_deallocate(ptr, layout) on engine state b: the pointer and the layout
\* are not read.
BDeallocate(b, bld) ==
    IF b.allocations = 0 /\ bld = "debug"
    THEN [res |-> "panic", bump |-> b]
    ELSE LET n == (b.allocations - 1) % (MaxAddr + 1)
         IN  [res |-> "Ok",
              bump |-> [b EXCEPT !.allocations = n,
                                 !.next = IF BCounterIsZero(n) THEN b.start ELSE @]]

\* AllocState::remaining and AllocState::allocations.
BRemaining == sub_or_default(bump.end, bump.next)
BAllocations == bump.allocations

BStart(regions, layouts) ==
    /\ \E r \in regions : bump = LockedBumpInit(r[1], r[2])
    /\ build \in {"debug", "release"}
    /\ blive = EmptyBag
    /\ \E l \in layouts : bret = [NoCall EXCEPT !.layout = l]
    /\ bfailed = FALSE

BTryAllocate(layout) ==
    /\ bret.res # "panic"
    /\ LET o == BAllocate(bump, layout, build)
       IN  /\ bump' = o.bump
           /\ bret' = [layout |-> layout, res |-> o.res, p |-> o.p]
           /\ blive' = IF o.res = "Ok"
                       THEN blive (+) SetToBag({<<o.p, layout.size>>})
                       ELSE blive
           /\ bfailed' = (bfailed \/ o.res # "Ok")
    /\ UNCHANGED NotBump

BTryDeallocate(blk) ==
    /\ bret.res # "panic"
    /\ BagIn(blk, blive)
    /\ LET o == BDeallocate(bump, build)
       IN  /\ bump' = o.bump
           /\ bret' = [NoCall EXCEPT !.res = IF o.res = "Ok" THEN "Freed" ELSE o.res]
           /\ blive' = IF o.res = "Ok" THEN blive (-) SetToBag({blk}) ELSE blive
    /\ UNCHANGED <<bfailed, NotBump>>

BInit == BStart(BRegions, {Layout(0, 1)}) /\ LIdle /\ DIdle /\ FIdle /\ ZIdle /\ XIdle

BNext ==
    \/ \E layout \in BLayouts : bump.allocations < MaxLive /\ BTryAllocate(layout)
    \/ \E blk \in BagToSet(blive) : BTryDeallocate(blk)

SpecBump == BInit /\ [][BNext]_vars

\* The same engine on a region away from the top of the address space, where
\* no address computation overflows.
ResetRegions == {<<8, 16>>, <<16, 12>>}
ResetInit ==
    BStart(ResetRegions, {Layout(0, 1)}) /\ LIdle /\ DIdle /\ FIdle /\ ZIdle /\ XIdle
SpecReset == ResetInit /\ [][BNext]_vars

\* Scenario S1: from a fresh region the caller repeats try_allocate with one
\* layout of alignment 1 until the first error.
SatLayouts == {l \in BLayouts : l.align = 1 /\ l.size > 0}

SatRegions == BRegions \cup {<<16, 12>>, <<24, 15>>, <<MaxAddr - 20, 16>>}

SatInit == BStart(SatRegions, SatLayouts) /\ LIdle /\ DIdle /\ FIdle /\ ZIdle /\ XIdle

SatNext ==
    /\ bret.res \in {"none", "Ok"}
    /\ BTryAllocate(bret.layout)

SpecSaturate == SatInit /\ [][SatNext]_vars

\* ====================================================== mutex-guarded buddy
\* simple_alloc/src/buddy_alloc/locked.rs.  Every operation of
\* Mutex<LockedBuddy> is one atomic step.  The free lists are intrusive: the
\* `next` field of a free block lives in the block's first word, so `mem`
\* holds those words.  Address 0 is None / the null pointer.  Buddy addresses
\* are not width-limited here: every address the engine computes stays far
\* below the top of the address space.

\* Regions given to init, as (start, size): size a power of two, start
\* 8-byte aligned.
DRegions == {<<64, 32>>, <<8, 32>>}

\* Layouts requested from the buddy engine.
DLayouts ==
    {Layout(8, 8), Layout(11, 1), Layout(24, 8), Layout(8, 16),
     Layout(PAGE_SIZE * 2^(MAX_ORDER + 1), 8)}

\* size_of::<FreeList>() and align_of::<FreeList>(): one pointer.
NodeSize == PAGE_SIZE

RECURSIVE ilog2(_)
\* usize::ilog2: floor of the base-2 logarithm (n >= 1).
ilog2(n) == IF n <= 1 THEN 0 ELSE 1 + ilog2(n \div 2)

\* usize::div_ceil
div_ceil(a, b) == (a + b - 1) \div b

\* usize::is_power_of_two
is_power_of_two(n) == n > 0 /\ 2^ilog2(n) = n

Max(a, b) == IF a >= b THEN a ELSE b
Min(a, b) == IF a <= b THEN a ELSE b

RECURSIVE Xor(_, _)
\* a ^ b on unsigned integers.
Xor(a, b) ==
    IF a = 0 THEN b
    ELSE IF b = 0 THEN a
    ELSE ((a + b) % 2) + 2 * Xor(a \div 2, b \div 2)

\* PAGE_SIZE << order
BlockSize(order) == PAGE_SIZE * 2^order

\* The engine together with the memory it links its lists through; `wild`
\* records a node written outside the region (or at the null address),
\* `panic` a failed assertion or bounds check.
Heap(b, m) == [base |-> b.base, size |-> b.size, list_areas |-> b.list_areas,
               mem |-> m, wild |-> FALSE, panic |-> FALSE]

InRegion(H, addr) == H.base <= addr /\ addr + NodeSize <= H.base + H.size

\* A node written at addr.
WriteNode(H, addr, next) ==
    [H EXCEPT !.mem = (addr :> next) @@ @,
              !.wild = @ \/ ~InRegion(H, addr)]

\* FreeArea::push, after the node at `value` has been written.
FreeAreaPush(H, order, value) ==
    [WriteNode(H, value, H.list_areas[order].head)
        EXCEPT !.list_areas[order] = [head |-> value, nr_free |-> @.nr_free + 1]]

\* FreeArea::pop: the engine after it, and the node (0 for None).
\* Both callers test nr_free > 0 on the same free-area first (split_area_to
\* lines 154 and 156), so `nr_free -= 1` does not underflow.
FreeAreaPop(H, order) ==
    LET node == H.list_areas[order].head
    IN
    IF node = 0
    THEN [H |-> H, node |-> 0]
    ELSE [H |-> [WriteNode(H, node, 0)
                    EXCEPT !.list_areas[order] =
                               [head |-> H.mem[node], nr_free |-> @.nr_free - 1]],
          node |-> node]

\* LockedBuddy::add_free_area(addr, order)
add_free_area(H, addr, order, bld) ==
    IF (bld = "debug" /\ addr = 0) \/ addr % NodeSize # 0 \/ order > MAX_ORDER
    THEN [H EXCEPT !.panic = TRUE]
    ELSE FreeAreaPush(H, order, addr)

\* LockedBuddy::push_to_order(order, addr)
push_to_order(H, order, addr, bld) ==
    IF bld = "debug" /\ addr = 0
    THEN [H EXCEPT !.panic = TRUE]
    ELSE FreeAreaPush(H, order, addr)

\* LockedBuddy::init(start, size) on a new engine.
LockedBuddyInit(start, size) ==
    IF start = 0 \/ ~is_power_of_two(size) \/ start % NodeSize # 0
    THEN [Heap(LockedBuddyNew, NoMem) EXCEPT !.panic = TRUE]
    ELSE
    add_free_area(Heap([LockedBuddyNew EXCEPT !.base = start, !.size = size], NoMem),
                  start, ilog2(div_ceil(size, PAGE_SIZE)), "release")

RECURSIVE SplitLoop(_, _, _, _)
\* The loop of split_area_to over current_order = source .. target, downwards.
SplitLoop(H, current_order, target_order, bld) ==
    IF current_order < target_order \/ H.panic
    THEN [ok |-> FALSE, H |-> H]
    ELSE IF H.list_areas[current_order].nr_free > 0
    THEN IF current_order = target_order
         THEN [ok |-> TRUE, H |-> H]
         ELSE LET popped == FreeAreaPop(H, current_order)
                  buddy_order == current_order - 1
                  block_size == BlockSize(buddy_order)
                  start_addr == popped.node
                  buddy_addr == start_addr + block_size
              IN  IF popped.node = 0
                  THEN [ok |-> FALSE, H |-> popped.H]
                  ELSE SplitLoop(push_to_order(push_to_order(popped.H, buddy_order,
                                                             start_addr, bld),
                                               buddy_order, buddy_addr, bld),
                                 current_order - 1, target_order, bld)
    ELSE SplitLoop(H, current_order - 1, target_order, bld)

\* The largest order with a free block, in place of the first one found.
SourceOrderLast(found) == CHOOSE o \in found : \A x \in found : o >= x

\* split_area_to: `(target_order..NR_MAX_ORDER).find(|&order| nr_free > 0)`
SourceOrder(found) == CHOOSE o \in found : \A x \in found : o <= x

\* LockedBuddy::split_area_to(target_order)
split_area_to(H, target_order, bld) ==
    LET found == {o \in target_order..MAX_ORDER : H.list_areas[o].nr_free > 0}
    IN  IF found = {}
        THEN [ok |-> FALSE, H |-> H]
        ELSE SplitLoop(H, SourceOrder(found), target_order, bld)

\* A merge that waits for a third free block.
MergeReadyAtThree(nr_free) == nr_free >= 3

\* combine_free_buddies: `self.list_areas[current_order].nr_free >= 2`
MergeReady(nr_free) == nr_free >= 2

RECURSIVE CombineLoop(_, _, _)
\* The loop of combine_free_buddies over current_order = from .. MAX_ORDER.
CombineLoop(H, addr, current_order) ==
    IF current_order > MAX_ORDER \/ H.panic
    THEN H
    ELSE IF MergeReady(H.list_areas[current_order].nr_free)
            /\ Xor(Xor(addr, BlockSize(current_order)), addr) = BlockSize(current_order)
    THEN LET buddy_addr == Xor(addr, BlockSize(current_order))
             new_addr == Min(addr, buddy_addr)
             cleared == [H EXCEPT !.list_areas[current_order] =
                                      [head |-> 0, nr_free |-> 0]]
             written == WriteNode(cleared, new_addr, 0)
         IN  IF current_order + 1 > MAX_ORDER
             THEN [written EXCEPT !.panic = TRUE]
             ELSE CombineLoop(FreeAreaPush(written, current_order + 1, new_addr),
                              addr, current_order + 1)
    ELSE CombineLoop(H, addr, current_order + 1)

\* LockedBuddy::combine_free_buddies(addr)
combine_free_buddies(H, addr, bld) ==
    IF bld = "debug" /\ addr = 0
    THEN [H EXCEPT !.panic = TRUE]
    ELSE CombineLoop(H, addr, MIN_ORDER)

\* Layout::align_to(align_of::<FreeList>()).pad_to_align().size()
PaddedSize(layout) ==
    LET align == Max(layout.align, NodeSize)
    IN  div_ceil(layout.size, align) * align

\* LockedBuddy::size_align(layout): the size in pages; the assertion on it.
size_align(layout) == div_ceil(Max(PaddedSize(layout), NodeSize), PAGE_SIZE)
size_align_panics(layout) == ilog2(size_align(layout)) > MAX_ORDER

\* The order try_allocate and try_deallocate compute from the layout.
LayoutOrder(layout) == ilog2(size_align(layout))

\* try_allocate(layout): result, address, engine.
BuddyAllocate(H, layout, bld) ==
    IF size_align_panics(layout)
    THEN [res |-> "panic", p |-> 0, H |-> H]
    ELSE LET alloc_order == LayoutOrder(layout)
             split == split_area_to(H, alloc_order, bld)
             popped == FreeAreaPop(split.H, alloc_order)
         IN  IF split.H.panic
             THEN [res |-> "panic", p |-> 0, H |-> split.H]
             ELSE IF ~split.ok
             THEN [res |-> "Oom", p |-> 0, H |-> split.H]
             ELSE IF popped.node = 0
             THEN [res |-> "Oom", p |-> 0, H |-> popped.H]
             ELSE [res |-> "Ok", p |-> popped.node, H |-> popped.H]

\* try_deallocate(ptr, layout): result, engine.
BuddyDeallocate(H, ptr, layout, bld) ==
    IF size_align_panics(layout)
    THEN [res |-> "panic", H |-> H]
    ELSE LET dealloc_order == LayoutOrder(layout)
             added == add_free_area(H, ptr, dealloc_order, bld)
             combined == combine_free_buddies(added, ptr, bld)
         IN  [res |-> IF combined.panic THEN "panic" ELSE "Freed", H |-> combined]

DStart ==
    /\ \E r \in DRegions :
          LET H == LockedBuddyInit(r[1], r[2])
          IN  /\ buddy = [base |-> H.base, size |-> H.size, list_areas |-> H.list_areas]
              /\ mem = H.mem
    /\ dlive = EmptyBag
    /\ dret = NoBuddyCall
    /\ dops = 0

\* The engine state an operation leaves.  An operation that wrote a node
\* outside the region has undefined behaviour: the write lands in whatever
\* memory is there, or the program faults.
DLeave(H, res, p, layout, fault) ==
    /\ fault => H.wild
    /\ IF fault \/ res = "panic"
       THEN /\ dret' = [layout |-> layout, res |-> IF fault THEN "fault" ELSE "panic",
                        p |-> 0]
            /\ UNCHANGED <<buddy, mem>>
       ELSE /\ dret' = [layout |-> layout, res |-> res, p |-> p]
            /\ buddy' = [base |-> H.base, size |-> H.size, list_areas |-> H.list_areas]
            /\ mem' = H.mem

DRunning == dret.res \notin {"panic", "fault"} /\ dops < MaxOps

DTryAllocate(layout, fault) ==
    /\ DRunning
    /\ BagCardinality(dlive) < MaxLive
    /\ LET o == BuddyAllocate(Heap(buddy, mem), layout, build)
       IN  /\ DLeave(o.H, o.res, o.p, layout, fault)
           /\ dlive' = IF o.res = "Ok" /\ ~fault
                       THEN dlive (+) SetToBag({<<o.p, layout>>})
                       ELSE dlive
    /\ dops' = dops + 1
    /\ UNCHANGED NotBuddy

DTryDeallocate(blk, fault) ==
    /\ DRunning
    /\ BagIn(blk, dlive)
    /\ LET o == BuddyDeallocate(Heap(buddy, mem), blk[1], blk[2], build)
       IN  /\ DLeave(o.H, o.res, 0, blk[2], fault)
           /\ dlive' = IF o.res = "Freed" /\ ~fault
                       THEN dlive (-) SetToBag({blk})
                       ELSE dlive
    /\ dops' = dops + 1
    /\ UNCHANGED NotBuddy

DInit ==
    DStart /\ LIdle /\ BIdle /\ FIdle /\ ZIdle /\ XIdle /\ build \in {"debug", "release"}

DNext ==
    \E fault \in BOOLEAN :
        \/ \E layout \in DLayouts : DTryAllocate(layout, fault)
        \/ \E blk \in BagToSet(dlive) : DTryDeallocate(blk, fault)

SpecBuddy == DInit /\ [][DNext]_vars

RECURSIVE Chain(_, _)
\* The nodes reached from `node` along `next` (the walk stops at a node
\* seen before).
Chain(node, seen) ==
    IF node = 0 \/ node \in seen \/ node \notin DOMAIN mem
    THEN seen
    ELSE Chain(mem[node], seen \cup {node})

\* The blocks on free-area `order`.
FreeBlocks(order) == Chain(buddy.list_areas[order].head, {})

RECURSIVE ChainOf(_, _, _)
\* Chain in the memory m.
ChainOf(m, node, seen) ==
    IF node = 0 \/ node \in seen \/ node \notin DOMAIN m
    THEN seen
    ELSE ChainOf(m, m[node], seen \cup {node})

\* The blocks on free-area `order` of the engine H.
FreeOf(H, order) == ChainOf(H.mem, H.list_areas[order].head, {})

\* ================================================== mutex-guarded free list
\* src/linked_list_alloc/locked.rs ("locked": BAllocator for
\* Mutex<LockedLinkedList>) and simple_alloc/src/redo/linked_list_alloc.rs
\* ("redo": GlobalAlloc for Locked<LinkedListAlloc>).  The two revisions share
\* every helper and differ in what try_allocate does with the excess of the
\* region it took.  The list is kept as the sequence of the nodes reached
\* from head.next, each node being the (addr, size) stored at addr.  Every
\* lock acquisition is one atomic step: try_deallocate takes the lock twice.

\* size_of::<Node>() and align_of::<Node>(): a usize and a pointer.
LLNodeSize == 16
LLNodeAlign == 8

FRevisions == {"locked", "redo"}

\* Regions given to init, as (start, size).
FRegions == {<<8, 32>>, <<MaxAddr - 55, 48>>}

\* Layouts requested from the free-list engine: u32, u64, 24 bytes, and a
\* u64 over-aligned to 16 and to 32.
FLayouts == {Layout(4, 4), Layout(8, 8), Layout(24, 8), Layout(8, 16), Layout(8, 32)}

Region(addr, size) == [addr |-> addr, size |-> size]

\* Node::end_addr
end_addr(node) == node.addr + node.size

\* The list together with what an operation did besides: `wild` a node
\* written outside the backing region (or at the null address), `panic` a
\* failed assertion.
FHeap(list) == [list |-> list, wild |-> FALSE, panic |-> FALSE]

FInRegion(addr) == fspan.start <= addr /\ addr + LLNodeSize <= fspan.end

\* LockedLinkedList::add_free_region(addr, size).  A reference to address 0
\* is the representation of None, so head.next = Some(&mut *0) empties the
\* list.
add_free_region(H, addr, size) ==
    IF addr % LLNodeAlign # 0 \/ size < LLNodeSize
    THEN [H EXCEPT !.panic = TRUE]
    ELSE [H EXCEPT !.list = IF addr = 0 THEN << >> ELSE <<Region(addr, size)>> \o @,
                   !.wild = @ \/ ~FInRegion(addr)]

\* LockedLinkedList::alloc_from_region(region, size, align)
alloc_from_region(region, size, align, bld) ==
    IF bld = "debug" /\ align_up_overflows(region.addr, align)
    THEN [res |-> "panic", alloc_start |-> 0]
    ELSE LET alloc_start == align_up(region.addr, align)
             alloc_end == checked_add(alloc_start, size)
             excess_size == end_addr(region) - alloc_end
         IN  IF alloc_end = -1 \/ alloc_end > end_addr(region)
             THEN [res |-> "Err", alloc_start |-> 0]
             ELSE IF excess_size > 0 /\ excess_size < LLNodeSize
             THEN [res |-> "Err", alloc_start |-> 0]
             ELSE [res |-> "Ok", alloc_start |-> alloc_start]

RECURSIVE FindFrom(_, _, _, _, _)
\* The loop of find_region from the i-th node on.
FindFrom(list, i, size, align, bld) ==
    IF i > Len(list)
    THEN [res |-> "None", idx |-> 0, alloc_start |-> 0]
    ELSE LET r == alloc_from_region(list[i], size, align, bld)
         IN  IF r.res = "Err"
             THEN FindFrom(list, i + 1, size, align, bld)
             ELSE [res |-> r.res, idx |-> i, alloc_start |-> r.alloc_start]

\* LockedLinkedList::find_region(size, align)
find_region(list, size, align, bld) == FindFrom(list, 1, size, align, bld)

\* The list without its i-th node.
Unlink(list, i) == SubSeq(list, 1, i - 1) \o SubSeq(list, i + 1, Len(list))

\* LockedLinkedList::size_align(layout): (size, align)
FSizeAlign(layout) ==
    LET align == Max(layout.align, LLNodeAlign)
    IN  [size |-> Max(div_ceil(layout.size, align) * align, LLNodeSize),
         align |-> align]

\* What try_allocate does with the excess of the region it took.
FKeepExcess(rev, excess_size) == rev = "locked" \/ excess_size > 0

\* try_allocate(layout) / alloc(layout): result, address, list.
FAllocate(H, layout, bld, rev) ==
    LET sa == FSizeAlign(layout)
        found == find_region(H.list, sa.size, sa.align, bld)
    IN  IF found.res = "panic"
        THEN [res |-> "panic", p |-> 0, H |-> H]
        ELSE IF found.res = "None"
        THEN [res |-> "Oom", p |-> 0, H |-> H]
        ELSE LET region == H.list[found.idx]
                 taken == [H EXCEPT !.list = Unlink(H.list, found.idx)]
                 alloc_end == found.alloc_start + sa.size
                 excess_size == end_addr(region) - alloc_end
                 left == IF FKeepExcess(rev, excess_size)
                         THEN add_free_region(taken, alloc_end, excess_size)
                         ELSE taken
             IN  IF left.panic
                 THEN [res |-> "panic", p |-> 0, H |-> left]
                 ELSE [res |-> IF found.alloc_start = 0 /\ rev = "redo"
                               THEN "Null" ELSE "Ok",
                       p |-> found.alloc_start, H |-> left]

RECURSIVE CombineFrom(_, _)
\* The loop of combine_free_regions with `current.next` the i-th node.
CombineFrom(list, i) ==
    IF i > Len(list)
    THEN list
    ELSE IF i < Len(list) /\ list[i].addr + list[i].size = list[i + 1].addr
    THEN CombineFrom([Unlink(list, i + 1)
                         EXCEPT ![i] = Region(list[i].addr,
                                              list[i].size + list[i + 1].size)],
                     i + 1)
    ELSE CombineFrom(list, i + 1)

\* LockedLinkedList::combine_free_regions
combine_free_regions(list) == CombineFrom(list, 1)

\* try_deallocate(ptr, layout), both lock acquisitions.
FDeallocate(H, ptr, layout) ==
    LET added == add_free_region(H, ptr, FSizeAlign(layout).size)
    IN  [added EXCEPT !.list = combine_free_regions(@)]

FStart ==
    /\ \E r \in FRegions :
          /\ fspan = [start |-> r[1], end |-> r[1] + r[2]]
          /\ flist = add_free_region(FHeap(<< >>), r[1], r[2]).list
    /\ frev \in FRevisions
    /\ flive = EmptyBag
    /\ fret = NoCall
    /\ fpend = 0

\* The state an operation leaves; a node written outside the backing region
\* is undefined behaviour: the write lands, or the program faults.
FLeave(H, res, p, layout, fault) ==
    /\ fault => H.wild
    /\ IF fault \/ res = "panic" \/ H.panic
       THEN /\ fret' = [layout |-> layout, res |-> IF fault THEN "fault" ELSE "panic",
                        p |-> 0]
            /\ UNCHANGED flist
       ELSE /\ fret' = [layout |-> layout, res |-> res, p |-> p]
            /\ flist' = H.list

FRunning == fret.res \notin {"panic", "fault"}

\* One thread's try_allocate.
FTryAllocate(layout, fault) ==
    /\ FRunning
    /\ fpend < NThreads
    /\ BagCardinality(flive) < MaxLive
    /\ LET o == FAllocate(FHeap(flist), layout, build, frev)
       IN  /\ FLeave(o.H, o.res, o.p, layout, fault)
           /\ flive' = IF o.res = "Ok" /\ ~fault
                       THEN flive (+) SetToBag({<<o.p, layout>>})
                       ELSE flive
    /\ UNCHANGED <<fspan, frev, fpend, NotFreeList>>

\* try_deallocate, first lock: add_free_region.
FDeallocAdd(blk, fault) ==
    /\ FRunning
    /\ fpend < NThreads
    /\ BagIn(blk, flive)
    /\ LET H == add_free_region(FHeap(flist), blk[1], FSizeAlign(blk[2]).size)
       IN  /\ FLeave(H, "Adding", 0, blk[2], fault)
           /\ flive' = IF H.panic \/ fault THEN flive ELSE flive (-) SetToBag({blk})
           /\ fpend' = IF H.panic \/ fault THEN fpend ELSE fpend + 1
    /\ UNCHANGED <<fspan, frev, NotFreeList>>

\* try_deallocate, second lock: combine_free_regions; the call returns.
FDeallocCombine ==
    /\ FRunning
    /\ fpend > 0
    /\ flist' = combine_free_regions(flist)
    /\ fpend' = fpend - 1
    /\ fret' = [NoCall EXCEPT !.res = "Freed"]
    /\ UNCHANGED <<fspan, frev, flive, NotFreeList>>

FInit ==
    FStart /\ LIdle /\ BIdle /\ DIdle /\ ZIdle /\ XIdle /\ build \in {"debug", "release"}

FNext ==
    \/ \E fault \in BOOLEAN : \E layout \in FLayouts : FTryAllocate(layout, fault)
    \/ \E fault \in BOOLEAN : \E blk \in BagToSet(flive) : FDeallocAdd(blk, fault)
    \/ FDeallocCombine

SpecFreeList == FInit /\ [][FNext]_vars

\* ======================================================= zeroed operations
\* simple_alloc/src/common.rs, the provided methods try_allocate_zeroed and
\* try_deallocate_zeroed of BAllocator, here over Mutex<LockedBump>.  The
\* engine call is one atomic step (it runs under the lock); write_bytes runs
\* outside the lock and is a step of its own, so other threads' calls come
\* between the two.  Memory is the set of addresses whose byte is not 0.
\* Of the engine's calls `bret` keeps only a panic here.

NotZeroed == <<build, lvars, dvars, fvars, XVars>>

ZRegions == {<<8, 12>>}
ZLayouts == {Layout(4, 4), Layout(8, 8)}

\* The addresses [p, p + n).
Range(p, n) == p..(p + n - 1)

\* try_allocate_zeroed: the count handed to write_bytes.
ZAllocZeroLenShort(size) == sub_or_default(size, 1)
ZAllocZeroLen(size) == size

\* try_deallocate_zeroed: the count handed to write_bytes.
ZDeallocZeroLen(size) == size

\* try_deallocate_zeroed: the order of its two statements.
ZDeallocOrderReleaseFirst == <<"release", "zero">>
ZDeallocOrder == <<"zero", "release">>

\* Some thread is inside a zeroed call on this block.
ZInFlight(blk) ==
    \E t \in Threads : zpc[t] # "idle" /\ zreg[t].p = blk[1] /\ zreg[t].size = blk[2]

\* Memory the engine can hand out to the next try_allocate.
ZAvailable == bump.next..(bump.end - 1)

\* Memory of the live blocks other than <<p, size>>.
ZOthers(p, size) ==
    UNION {Range(b[1], b[2]) : b \in BagToSet(blive (-) SetToBag({<<p, size>>}))}

ZRunning == bret.res # "panic"

\* try_allocate_zeroed: `self.try_allocate(layout)?`
ZAllocCall(t, layout) ==
    /\ ZRunning
    /\ zpc[t] = "idle"
    /\ bump.allocations < MaxLive
    /\ LET o == BAllocate(bump, layout, build)
       IN  /\ bump' = o.bump
           /\ bret' = IF o.res = "panic" THEN [NoCall EXCEPT !.res = "panic"] ELSE bret
           /\ IF o.res = "Ok"
              THEN /\ blive' = blive (+) SetToBag({<<o.p, layout.size>>})
                   /\ zpc' = [zpc EXCEPT ![t] = "az_write"]
                   /\ zreg' = [zreg EXCEPT ![t] = [NoBlock EXCEPT !.p = o.p,
                                                                   !.size = layout.size]]
                   /\ UNCHANGED zret
              ELSE /\ zret' = [NoZeroed EXCEPT !.op = "alloc", !.res = o.res]
                   /\ UNCHANGED <<blive, zpc, zreg>>
    /\ UNCHANGED <<bfailed, zdirty, zstray, NotZeroed>>

\* try_allocate_zeroed: `write_bytes(ptr.as_ptr(), 0, size)` and `return Ok(ptr)`
ZAllocWrite(t) ==
    /\ ZRunning
    /\ zpc[t] = "az_write"
    /\ LET wrote == Range(zreg[t].p, ZAllocZeroLen(zreg[t].size))
       IN  /\ zdirty' = zdirty \ wrote
           /\ zret' = [op |-> "alloc", res |-> "Ok", p |-> zreg[t].p,
                        cleaned |-> wrote \cap zdirty # {}]
    /\ zpc' = [zpc EXCEPT ![t] = "idle"]
    /\ zreg' = [zreg EXCEPT ![t] = NoBlock]
    /\ UNCHANGED <<bvars, zstray, NotZeroed>>

\* One statement of try_deallocate_zeroed on the block in hand:
\* `write_bytes(ptr.as_ptr(), 0, layout.size())` or
\* `self.try_deallocate(ptr, layout)?`.
ZDeallocStep(kind, blk) ==
    IF kind = "zero"
    THEN LET wrote == Range(blk.p, ZDeallocZeroLen(blk.size))
         IN  /\ zdirty' = zdirty \ wrote
             /\ zstray' = (zstray \/ (wrote # {} /\
                              (\/ ~BagIn(<<blk.p, blk.size>>, blive)
                               \/ wrote \cap ZAvailable # {}
                               \/ wrote \cap ZOthers(blk.p, blk.size) # {})))
             /\ UNCHANGED bvars
    ELSE LET o == BDeallocate(bump, build)
         IN  /\ bump' = o.bump
             /\ bret' = IF o.res = "panic" THEN [NoCall EXCEPT !.res = "panic"] ELSE bret
             /\ blive' = blive (-) SetToBag({<<blk.p, blk.size>>})
             /\ UNCHANGED <<bfailed, zdirty, zstray>>

\* try_deallocate_zeroed: its first statement.
ZDeallocFirst(t, b) ==
    /\ ZRunning
    /\ zpc[t] = "idle"
    /\ BagIn(b, blive)
    /\ ~ZInFlight(b)
    /\ ZDeallocStep(ZDeallocOrder[1], [NoBlock EXCEPT !.p = b[1], !.size = b[2]])
    /\ zreg' = [zreg EXCEPT ![t] =
                    [p |-> b[1], size |-> b[2],
                     wrote |-> IF ZDeallocOrder[1] = "zero"
                               THEN Range(b[1], ZDeallocZeroLen(b[2])) ELSE {}]]
    /\ zpc' = [zpc EXCEPT ![t] = "dz_second"]
    /\ UNCHANGED <<zret, NotZeroed>>

\* try_deallocate_zeroed: its second statement and `return Ok(())`.
ZDeallocSecond(t) ==
    /\ ZRunning
    /\ zpc[t] = "dz_second"
    /\ ZDeallocStep(ZDeallocOrder[2], zreg[t])
    /\ zret' = [NoZeroed EXCEPT !.op = "dealloc", !.res = "Freed"]
    /\ zreg' = [zreg EXCEPT ![t] = NoBlock]
    /\ zpc' = [zpc EXCEPT ![t] = "idle"]
    /\ UNCHANGED NotZeroed

\* The holder of a live block writes non-zero bytes over it.
ZUserWrite(b) ==
    /\ ZRunning
    /\ BagIn(b, blive)
    /\ ~ZInFlight(b)
    /\ zdirty' = zdirty \cup Range(b[1], b[2])
    /\ zdirty' # zdirty
    /\ UNCHANGED <<bvars, zpc, zreg, zret, zstray, NotZeroed>>

\* The holder of a live block returns it with try_deallocate, bytes as they are.
ZPlainDeallocate(b) ==
    /\ ZRunning
    /\ BagIn(b, blive)
    /\ ~ZInFlight(b)
    /\ LET o == BDeallocate(bump, build)
       IN  /\ bump' = o.bump
           /\ bret' = IF o.res = "panic" THEN [NoCall EXCEPT !.res = "panic"] ELSE bret
           /\ blive' = blive (-) SetToBag({b})
    /\ UNCHANGED <<bfailed, zvars, NotZeroed>>

ZInit ==
    /\ BStart(ZRegions, {Layout(0, 1)})
    /\ zpc = [t \in Threads |-> "idle"]
    /\ zreg = [t \in Threads |-> NoBlock]
    /\ zdirty = {}
    /\ zret = NoZeroed
    /\ zstray = FALSE
    /\ LIdle /\ DIdle /\ FIdle /\ XIdle

ZNext ==
    \/ \E t \in Threads : \E layout \in ZLayouts : ZAllocCall(t, layout)
    \/ \E t \in Threads : ZAllocWrite(t)
    \/ \E t \in Threads : \E b \in BagToSet(blive) : ZDeallocFirst(t, b)
    \/ \E t \in Threads : ZDeallocSecond(t)
    \/ \E b \in BagToSet(blive) : ZUserWrite(b)
    \/ \E b \in BagToSet(blive) : ZPlainDeallocate(b)

SpecZeroed == ZInit /\ [][ZNext]_vars

\* ================================================= GlobalAlloc for Alloc<A>
\* simple_alloc/src/common.rs, the adapter that makes an engine the global
\* allocator, here over Mutex<LockedBump>.  A call is one atomic step: the
\* engine call inside it runs under the lock and nothing else of the call
\* reads or writes shared state.

\* Layouts requested through the adapter.
GLayouts == {Layout(3, 1), Layout(4, 4), Layout(8, 8)}

\* alloc: `Ok(mut ptr) => return ptr.as_mut()`, `Err(_e) => return null_mut()`.
GAllocReturn(o) == IF o.res = "Ok" THEN o.p ELSE 0

\* dealloc without its assertion.
GPtrUnchecked(ptr) == FALSE

\* dealloc: `ptr.is_null()` of its assertion.
GPtrIsNull(ptr) == ptr = 0

GRunning == gret.res # "panic" /\ gops < MaxOps

\* GlobalAlloc::alloc(layout)
GAlloc(layout) ==
    /\ GRunning
    /\ bump.allocations < MaxLive
    /\ LET o == BAllocate(bump, layout, build)
       IN  /\ bump' = o.bump
           /\ bret' = [layout |-> layout, res |-> o.res, p |-> o.p]
           /\ blive' = IF o.res = "Ok"
                       THEN blive (+) SetToBag({<<o.p, layout.size>>})
                       ELSE blive
           /\ bfailed' = (bfailed \/ o.res # "Ok")
           /\ gret' = IF o.res = "panic"
                      THEN [op |-> "alloc", ptr |-> 0, res |-> "panic", calls |-> 1]
                      ELSE [op |-> "alloc", ptr |-> GAllocReturn(o),
                            res |-> "returned", calls |-> 1]
    /\ gops' = gops + 1
    /\ UNCHANGED NotGlobal

\* The pointers handed to dealloc: a block the caller holds, or null.
GDeallocArgs == BagToSet(blive) \cup {<<0, 0>>}

\* GlobalAlloc::dealloc(ptr, layout), blk = (ptr, layout.size)
GDealloc(blk) ==
    /\ GRunning
    /\ IF GPtrIsNull(blk[1])
       THEN /\ gret' = [op |-> "dealloc", ptr |-> blk[1], res |-> "panic", calls |-> 0]
            /\ UNCHANGED bvars
       ELSE LET o == BDeallocate(bump, build)
            IN  /\ bump' = o.bump
                /\ bret' = [NoCall EXCEPT !.res = IF o.res = "Ok" THEN "Freed" ELSE o.res]
                /\ blive' = IF o.res = "Ok" /\ BagIn(blk, blive)
                            THEN blive (-) SetToBag({blk}) ELSE blive
                /\ gret' = [op |-> "dealloc", ptr |-> blk[1],
                            res |-> IF o.res = "panic" THEN "panic" ELSE "returned",
                            calls |-> 1]
                /\ UNCHANGED bfailed
    /\ gops' = gops + 1
    /\ UNCHANGED NotGlobal

GInit ==
    /\ BStart(BRegions, {Layout(0, 1)})
    /\ GIdle /\ UIdle /\ CIdle /\ LIdle /\ DIdle /\ FIdle /\ ZIdle

GNext ==
    \/ \E layout \in GLayouts : GAlloc(layout)
    \/ \E blk \in GDeallocArgs : GDealloc(blk)

SpecGlobal == GInit /\ [][GNext]_vars

\* ========================================== lifecycle: new, init, try_allocate
\* The runtime-initialised wrappers from their construction on:
\* Alloc<Mutex<LockedBump>>, Alloc<Mutex<LockedBuddy>>,
\* Alloc<Mutex<LockedLinkedList>> and Alloc<OnceCell<LocklessBump>>, one per
\* behaviour, used by one thread.  `new` leaves the three mutex-guarded
\* engines in their constructed state and the OnceCell empty.

Wrappers == {"bump", "buddy", "free-list", "lockless"}

\* The region given to init, as (start, size).
URegions == {<<8, 32>>}

\* Layouts requested before and after init.
ULayouts == {Layout(0, 1), Layout(4, 4), Layout(8, 8), Layout(24, 8)}

\* `self.get().expect(ALLOCATOR_UNINITIALIZED)` of the lock-free wrapper.
OnceCellGet(inited) == IF inited THEN "Some" ELSE "panic"

\* try_allocate(layout) of OnceCell<LocklessBump> run by one thread from its
\* first statement to its return, on engine state b.
LocklessAllocate(b, inited, layout, bld) ==
    IF OnceCellGet(inited) = "panic"
    THEN [res |-> "panic", p |-> 0, bump |-> b]
    ELSE IF bld = "debug" /\ align_up_overflows(b.next, layout.align)
    THEN [res |-> "panic", p |-> 0, bump |-> b]
    ELSE LET alloc_start == align_up(b.next, layout.align)
             alloc_end == checked_add(alloc_start, layout.size)
         IN  IF alloc_end = -1
             THEN [res |-> "Overflowed", p |-> 0, bump |-> b]
             ELSE IF alloc_end > b.end
             THEN [res |-> "Oom", p |-> 0, bump |-> b]
             ELSE [res |-> IF alloc_start = 0 THEN "Null" ELSE "Ok",
                   p |-> alloc_start,
                   bump |-> [b EXCEPT !.next = alloc_end,
                                      !.allocations = (@ + 1) % (MaxAddr + 1)]]

URunning == uret.res # "panic" /\ uops < MaxOps

\* AllocInit::init(start, size) of the wrapper.
UInit(r) ==
    /\ URunning
    /\ ~uinit
    /\ uinit' = TRUE
    /\ uops' = uops + 1
    /\ \/ /\ uwho = "bump"
          /\ bump' = LockedBumpInit(r[1], r[2])
          /\ UNCHANGED <<lbump, buddy, mem, flist, fspan>>
       \/ /\ uwho = "buddy"
          /\ LET H == LockedBuddyInit(r[1], r[2])
             IN  /\ buddy' = [base |-> H.base, size |-> H.size,
                              list_areas |-> H.list_areas]
                 /\ mem' = H.mem
          /\ UNCHANGED <<lbump, bump, flist, fspan>>
       \/ /\ uwho = "free-list"
          /\ fspan' = [start |-> r[1], end |-> r[1] + r[2]]
          /\ flist' = add_free_region(FHeap(<< >>), r[1], r[2]).list
          /\ UNCHANGED <<lbump, bump, buddy, mem>>
       \/ /\ uwho = "lockless"
          /\ lbump' = LocklessBumpInit(r[1], r[2])
          /\ UNCHANGED <<bump, buddy, mem, flist, fspan>>
    /\ UNCHANGED <<build, uwho, uret, pc, treg, llive, lghost, blive, bret, bfailed,
                   dlive, dret, dops, frev, flive, fret, fpend, zvars, gvars, cvars>>

\* try_allocate(layout) of the wrapper.
UTryAllocate(layout) ==
    /\ URunning
    /\ uops' = uops + 1
    /\ \/ /\ uwho = "bump"
          /\ LET o == BAllocate(bump, layout, build)
             IN  /\ bump' = o.bump
                 /\ uret' = [layout |-> layout, res |-> o.res, init |-> uinit]
          /\ UNCHANGED <<lbump, buddy, mem, flist>>
       \/ /\ uwho = "buddy"
          /\ LET o == BuddyAllocate(Heap(buddy, mem), layout, build)
             IN  /\ buddy' = [base |-> o.H.base, size |-> o.H.size,
                              list_areas |-> o.H.list_areas]
                 /\ mem' = o.H.mem
                 /\ uret' = [layout |-> layout, res |-> o.res, init |-> uinit]
          /\ UNCHANGED <<lbump, bump, flist>>
       \/ /\ uwho = "free-list"
          /\ LET o == FAllocate(FHeap(flist), layout, build, frev)
             IN  /\ flist' = IF o.res = "panic" THEN flist ELSE o.H.list
                 /\ uret' = [layout |-> layout, res |-> o.res, init |-> uinit]
          /\ UNCHANGED <<lbump, bump, buddy, mem>>
       \/ /\ uwho = "lockless"
          /\ LET o == LocklessAllocate(lbump, uinit, layout, build)
             IN  /\ lbump' = o.bump
                 /\ uret' = [layout |-> layout, res |-> o.res, init |-> uinit]
          /\ UNCHANGED <<bump, buddy, mem, flist>>
    /\ UNCHANGED <<build, uwho, uinit, fspan, pc, treg, llive, lghost, blive, bret,
                   bfailed, dlive, dret, dops, frev, flive, fret, fpend, zvars, gvars,
                   cvars>>

\* Alloc::new() of one of the wrappers.
LifecycleInit ==
    /\ uwho \in Wrappers
    /\ uinit = FALSE
    /\ uret = NoLifecycleCall
    /\ uops = 0
    /\ build \in {"debug", "release"}
    /\ LIdle /\ BIdle /\ DIdle /\ FIdle /\ ZIdle /\ GIdle /\ CIdle

LifecycleNext ==
    \/ \E r \in URegions : UInit(r)
    \/ \E layout \in ULayouts : UTryAllocate(layout)

SpecLifecycle == LifecycleInit /\ [][LifecycleNext]_vars

\* ============================================================== ConstBump<S>
\* simple_alloc/src/bump_alloc/bconst.rs and simple_alloc/src/bump_alloc.rs:
\* the bump engine over an array embedded in the allocator (alignment 1, at
\* whatever address the object is placed), used by one thread, and beside it
\* a lock-free bump initialised over the same (start, length) that receives
\* the same try_allocate / try_deallocate calls.

\* The embedded array, as (address, S); the last one ends just below the top
\* of the address space.
CRegions == {<<8, 16>>, <<11, 12>>, <<MaxAddr - 13, 12>>}

CLayouts == {Layout(3, 1), Layout(4, 4), Layout(8, 8)}

\* Arguments handed to init.
CInitArgs == {<<8, 16>>, <<0, 0>>}

\* ConstBump::heap_end and ConstBump::next
ConstHeapEnd(c) == (c.heap_start + c.S) % (MaxAddr + 1)
ConstNext(c) == (c.offset + c.heap_start) % (MaxAddr + 1)

\* An init that constructs the engine again.
ConstInitResets(c, start, size) == ConstBumpNew(c.heap_start, c.S)

\* BAllocator for ConstBump::init(_start, _size): an empty body.
ConstInit(c, start, size) == c

\* try_allocate(layout) of ConstBump run by one thread.
ConstAllocate(c, layout, bld) ==
    IF bld = "debug" /\ align_up_overflows(ConstNext(c), layout.align)
    THEN [res |-> "panic", p |-> 0, bump |-> c]
    ELSE LET alloc_start == align_up(ConstNext(c), layout.align)
             alloc_end == checked_add(alloc_start, layout.size)
         IN  IF alloc_end = -1
             THEN [res |-> "Overflowed", p |-> 0, bump |-> c]
             ELSE IF alloc_end > ConstHeapEnd(c)
             THEN [res |-> "Oom", p |-> 0, bump |-> c]
             ELSE IF alloc_end < c.heap_start    \* checked_sub gives None
             THEN [res |-> "Overflowed", p |-> 0, bump |-> c]
             ELSE [res |-> IF alloc_start = 0 THEN "Null" ELSE "Ok",
                   p |-> alloc_start,
                   bump |-> [c EXCEPT !.offset = alloc_end - c.heap_start,
                                      !.allocations = (@ + 1) % (MaxAddr + 1)]]

\* try_deallocate of ConstBump run by one thread: fetch_sub, then the reset.
ConstDeallocate(c) ==
    LET prev == c.allocations
    IN  [c EXCEPT !.allocations = (prev - 1) % (MaxAddr + 1),
                  !.offset = IF prev = 1 THEN 0 ELSE @]

\* try_deallocate of OnceCell<LocklessBump> run by one thread.
LocklessDeallocate(b) ==
    LET prev == b.allocations
    IN  [b EXCEPT !.allocations = (prev - 1) % (MaxAddr + 1),
                  !.next = IF LShouldReset(prev) THEN b.start ELSE @]

\* AllocState::remaining of the two engines.
ConstRemaining(c) == sub_or_default(ConstHeapEnd(c), ConstNext(c))
LocklessRemaining(b) == sub_or_default(b.end, b.next)

CRunning == cret.cres # "panic" /\ cret.lres # "panic" /\ cops < MaxOps

\* init(start, size) on the ConstBump.
CInit(start, size) ==
    /\ CRunning
    /\ cbump' = ConstInit(cbump, start, size)
    /\ cret' = [NoConstCall EXCEPT !.op = "init", !.cres = "done"]
    /\ cops' = cops + 1
    /\ UNCHANGED <<clive, build, lvars, bvars, dvars, fvars, zvars, gvars, uvars>>

\* try_allocate(layout) on both engines.
CTryAllocate(layout) ==
    /\ CRunning
    /\ clive < MaxLive
    /\ LET c == ConstAllocate(cbump, layout, build)
           l == LocklessAllocate(lbump, TRUE, layout, build)
       IN  /\ cbump' = c.bump
           /\ lbump' = l.bump
           /\ cret' = [op |-> "alloc", layout |-> layout,
                       cres |-> c.res, coff |-> c.p - cbump.heap_start,
                       lres |-> l.res, loff |-> l.p - lbump.start]
           /\ clive' = IF c.res = "Ok" THEN clive + 1 ELSE clive
    /\ cops' = cops + 1
    /\ UNCHANGED <<build, pc, treg, llive, lghost, bvars, dvars, fvars, zvars, gvars,
                   uvars>>

\* try_deallocate of a block the caller holds, on both engines.
CTryDeallocate ==
    /\ CRunning
    /\ clive > 0
    /\ cbump' = ConstDeallocate(cbump)
    /\ lbump' = LocklessDeallocate(lbump)
    /\ cret' = [NoConstCall EXCEPT !.op = "dealloc", !.cres = "Freed", !.lres = "Freed"]
    /\ clive' = clive - 1
    /\ cops' = cops + 1
    /\ UNCHANGED <<build, pc, treg, llive, lghost, bvars, dvars, fvars, zvars, gvars,
                   uvars>>

ConstInitState ==
    /\ \E r \in CRegions :
          /\ cbump = ConstBumpNew(r[1], r[2])
          /\ lbump = LocklessBumpInit(r[1], r[2])
    /\ cret = NoConstCall
    /\ clive = 0
    /\ cops = 0
    /\ pc = [t \in Threads |-> "idle"]
    /\ treg = [t \in Threads |-> NoRegs]
    /\ llive = EmptyBag
    /\ lghost = [ndealloc |-> 0, reset |-> FALSE, owed |-> 0, strayWrite |-> FALSE]
    /\ build \in {"debug", "release"}
    /\ BIdle /\ DIdle /\ FIdle /\ ZIdle /\ GIdle /\ UIdle

ConstNextStep ==
    \/ \E a \in CInitArgs : CInit(a[1], a[2])
    \/ \E layout \in CLayouts : CTryAllocate(layout)
    \/ CTryDeallocate

SpecConst == ConstInitState /\ [][ConstNextStep]_vars

\* ================================================= bump engines, any caller
\* The program holds one bump engine, Mutex<LockedBump> or
\* OnceCell<LocklessBump>, initialised; try_deallocate of the locked engine
\* is called with any pointer and layout, the engine reading neither.

\* The rest of the model is not used.
FrameIdle ==
    /\ GIdle /\ CIdle /\ DIdle /\ FIdle /\ ZIdle
    /\ uinit = FALSE /\ uret = NoLifecycleCall /\ uops = 0

\* The region and the layouts of the locked engine.
FrameRegions == {<<8, 16>>}
FrameLayouts == {Layout(4, 4), Layout(8, 8)}

\* Blocks passed to try_deallocate: the live ones and one never allocated.
FrameArgs == BagToSet(blive) \cup {<<12, 4>>}

\* One try_deallocate(ptr, layout) of Mutex<LockedBump>.
FrameDeallocate(blk) ==
    /\ bret.res # "panic"
    /\ LET o == BDeallocate(bump, build)
       IN  /\ bump' = o.bump
           /\ bret' = [NoCall EXCEPT !.res = IF o.res = "Ok" THEN "Freed" ELSE o.res]
           /\ blive' = IF o.res = "Ok" /\ BagIn(blk, blive)
                       THEN blive (-) SetToBag({blk})
                       ELSE blive
    /\ UNCHANGED <<bfailed, NotBump>>

FrameInit ==
    /\ FrameIdle
    /\ \/ BStart(FrameRegions, {Layout(0, 1)}) /\ LIdle /\ uwho = "bump"
       \/ LStart /\ BIdle /\ build = "release" /\ uwho = "lockless"

FrameNext ==
    \/ /\ uwho = "bump"
       /\ bump.allocations < MaxLive /\ BagCardinality(blive) < MaxLive
       /\ \E layout \in FrameLayouts : BTryAllocate(layout)
    \/ /\ uwho = "bump"
       /\ bump.allocations <= MaxLive
       /\ \E blk \in FrameArgs : FrameDeallocate(blk)
    \/ /\ uwho = "lockless"
       /\ LNext

SpecFrame == FrameInit /\ [][FrameNext]_vars

\* ============================================== OnceCell<LocklessBump>::init
\* bump_alloc/lockless.rs, AllocInit::init, called any number of times by
\* any thread, before, between and during the allocations.  init_once of
\* conquer_once::spin::OnceCell returns at once on an initialised cell, runs
\* the closure in the one caller that finds the cell uninitialised, and
\* makes a caller that finds it being initialised spin until it is.

\* Arguments of init, as (start, size).
OnceRegions == {<<8, 16>>, <<16, 8>>}

\* The layout the threads allocate.
OnceLayout == Layout(4, 4)

\* What a call of init leaves alone besides the cell and the engine.
NotOnce == <<build, bvars, dvars, fvars, zvars, gvars, cvars, uwho, uops,
             treg, llive, lghost>>

\* init_once without its test of the cell: every caller initialises.
OnceNeverInitialized(inited) == FALSE

\* init_once: the cell already holds a value.
OnceIsInitialized(inited) == inited

\* The cell is being initialised by some caller.
OnceInitializing == \E t \in Threads : pc[t] = "i_run"

\* init has returned; `later`: it found the cell initialised or being
\* initialised by another caller.
InitReturned(later) == [NoLifecycleCall EXCEPT !.res = "InitReturned", !.init = later]

\* init(start, size), entry into init_once.
OnceInitCall(t) ==
    /\ pc[t] = "idle"
    /\ IF OnceIsInitialized(uinit)
       THEN /\ uret' = InitReturned(TRUE)
            /\ UNCHANGED pc
       ELSE /\ pc' = [pc EXCEPT ![t] = IF OnceInitializing THEN "i_wait" ELSE "i_run"]
            /\ UNCHANGED uret
    /\ UNCHANGED <<lbump, uinit, NotOnce>>

\* The closure of init: LocklessBump::new, LocklessBump::init(start, size);
\* the cell takes the value.
OnceInitRun(t, r) ==
    /\ pc[t] = "i_run"
    /\ lbump' = LocklessBumpInit(r[1], r[2])
    /\ uinit' = TRUE
    /\ pc' = [pc EXCEPT ![t] = "idle"]
    /\ uret' = InitReturned(uinit)
    /\ UNCHANGED NotOnce

\* A caller that spun on the cell sees it initialised and returns.
OnceInitWake(t) ==
    /\ pc[t] = "i_wait"
    /\ uinit
    /\ pc' = [pc EXCEPT ![t] = "idle"]
    /\ uret' = InitReturned(TRUE)
    /\ UNCHANGED <<lbump, uinit, NotOnce>>

\* Alloc::new(): the cell is empty.
OnceInit ==
    /\ LIdle /\ BIdle /\ DIdle /\ FIdle /\ ZIdle /\ GIdle /\ CIdle
    /\ uwho = "lockless"
    /\ uinit = FALSE
    /\ uret = NoLifecycleCall
    /\ uops = 0
    /\ build = "release"

OnceNext ==
    \E t \in Threads :
        \/ OnceInitCall(t)
        \/ \E r \in OnceRegions : OnceInitRun(t, r)
        \/ OnceInitWake(t)
        \/ /\ uinit
           /\ BagCardinality(llive) + InFlight < MaxLive
           /\ LAllocLoad(t, OnceLayout, "idle")
        \/ uinit /\ LAllocStore(t)
        \/ uinit /\ LAllocInc(t)
        \/ uinit /\ \E blk \in BagToSet(llive) : LDeallocSub(t, blk)
        \/ uinit /\ LDeallocReset(t)

SpecOnce == OnceInit /\ [][OnceNext]_vars

\* ---------------------------------------------------------------- claims
\* C1: while nothing has been deallocated, the byte ranges [p, p+size) of any
\* two successful lock-free allocations are disjoint (so no two successful
\* calls return the same address).
C1_LocklessDisjoint ==
    lghost.ndealloc = 0 =>
        \A a, b \in BagToSet(llive) :
            (a # b \/ CopiesIn(a, llive) >= 2) => ~Overlap(a[1], a[2], b[1], b[2])

\* C2: when every thread of the race has received its error (Oom), the number
\* of successful allocations is exactly L / s.
C2_RaceTotal ==
    (\A t \in Threads : pc[t] = "done") =>
        BagCardinality(llive) = (lbump.end - lbump.start) \div RaceLayout.size

\* C3: as long as no deallocation has reset the cursor, no step replaces the
\* cursor `next` by a smaller value.
C3_CursorMonotone ==
    [][lghost'.reset = FALSE => lbump'.next >= lbump.next]_vars

\* C4: a try_deallocate stores `start` into the cursor iff its fetch_sub
\* returned 1: every transition of the counter from 1 to 0 is answered by
\* exactly one reset store (the resets still owed are exactly the calls that
\* hold prev = 1 and have not stored yet), and no call that saw another
\* previous value writes the cursor.
C4_ResetIffPrevOne ==
    /\ lghost.owed = Cardinality({t \in Threads : pc[t] = "d_check" /\ treg[t].prev = 1})
    /\ ~lghost.strayWrite

\* A reset store has happened, and a later deallocation that saw a previous
\* value other than 1 is between its fetch_sub and its return.
C4_Witness ==
    /\ lghost.reset
    /\ \E t \in Threads : pc[t] = "d_check" /\ treg[t].prev = 2


\* C5 (as claimed): from a fresh region of length L, repeating
\* try_allocate(layout(s, 1)) succeeds exactly floor(L/s) times, the i-th
\* success (from 0) returning start + i*s, and the next call returns Oom.
C5_Saturation ==
    LET s == bret.layout.size
        L == bump.end - bump.start
        k == BagCardinality(blive)
    IN  /\ bret.res = "Ok" => bret.p = bump.start + (k - 1) * s
        /\ bret.res \notin {"none", "Ok"} => (bret.res = "Oom" /\ k = L \div s)

\* C5 (amended): as above, but the call after the last success returns
\* Overflowed instead of Oom when the block it computes, which would end at
\* start + (floor(L/s) + 1) * s, ends beyond the largest address.
C5_SaturationAmended ==
    LET s == bret.layout.size
        L == bump.end - bump.start
        k == BagCardinality(blive)
    IN  /\ bret.res = "Ok" => bret.p = bump.start + (k - 1) * s
        /\ bret.res \notin {"none", "Ok"} =>
               /\ k = L \div s
               /\ bret.res = IF bump.start + (k + 1) * s > MaxAddr
                             THEN "Overflowed" ELSE "Oom"

\* The saturating caller has received Oom after at least three successes.
C5_Witness == bret.res = "Oom" /\ BagCardinality(blive) >= 3

\* C6: once every live allocation of a history of successful allocations has
\* been released, remaining() is the region length, and the next try_allocate
\* returns the first aligned address of the region: it succeeds when that
\* block fits, and when it succeeds that is its address.
C6_ResetLaw ==
    (blive = EmptyBag /\ ~bfailed) =>
        /\ BRemaining = bump.end - bump.start
        /\ BAllocations = 0
        /\ \A layout \in BLayouts :
              LET o == BAllocate(bump, layout, build)
                  first == bump.start + align_offset(bump.start, layout.align)
              IN  /\ o.res = "Ok" => o.p = first
                  /\ first + layout.size <= bump.end => (o.res = "Ok" /\ o.p = first)

\* The last live allocation has just been released.
C6_Witness == bret.res = "Freed" /\ blive = EmptyBag /\ ~bfailed

\* C7: in every reachable state start <= next <= end, and next = start iff
\* the live-allocation counter is 0.
C7_BumpInvariant ==
    /\ bump.start <= bump.next
    /\ bump.next <= bump.end
    /\ (bump.next = bump.start) <=> (bump.allocations = 0)

\* C8: a try_allocate for which align_up(next, align) + size exceeds the
\* largest address returns Overflowed and leaves the engine unchanged.
C8_OverflowGuard ==
    [][(/\ bret'.res \notin {"none", "Freed"}
        /\ bump.next + align_offset(bump.next, bret'.layout.align)
               + bret'.layout.size > MaxAddr)
       => (bret'.res = "Overflowed" /\ bump' = bump)]_vars

\* C9  (buddy non-overlap) Under the mutex-guarded buddy engine the byte
\* ranges [p, p + layout.size) of any two live allocations are disjoint, and
\* no live allocation's range meets a block that is on a free-area.
C9_BuddyNonOverlap ==
    /\ \A a, b \in BagToSet(dlive) :
          (a # b \/ CopiesIn(a, dlive) >= 2)
              => ~Overlap(a[1], a[2].size, b[1], b[2].size)
    /\ \A a \in BagToSet(dlive) : \A o \in Orders : \A f \in FreeBlocks(o) :
          ~Overlap(a[1], a[2].size, f, BlockSize(o))

\* C10 (buddy address correctness) A successful allocation from a region
\* whose start is aligned only to the node alignment (8) returns p with
\* p mod layout.align = 0, start <= p and p + layout.size <= start + length.
C10_BuddyAddress ==
    (dret.res = "Ok" /\ buddy.base % PAGE_SIZE = 0 /\ buddy.base % (2 * PAGE_SIZE) # 0)
        => /\ dret.p % dret.layout.align = 0
           /\ buddy.base <= dret.p
           /\ dret.p + dret.layout.size <= buddy.base + buddy.size

\* C11 (buddy closure) After buddy try_allocate calls followed by the
\* matching try_deallocate of every live allocation, in any order, the
\* free-area array equals the post-init one: a single block of the top
\* order at `start`, every other free-area empty.
C11_BuddyClosure ==
    (dret.res = "Freed" /\ dlive = EmptyBag)
        => buddy.list_areas = LockedBuddyInit(buddy.base, buddy.size).list_areas

\* C12 (buddy oversize request) A buddy try_allocate whose layout gives an
\* order above MAX_ORDER returns the error value LayoutTooLarge, without
\* aborting and without changing any free-area.
C12_BuddyOversize ==
    [][(dops' # dops /\ size_align_panics(dret'.layout))
          => (dret'.res = "LayoutTooLarge" /\ buddy' = buddy)]_vars

\* C13 (free-list closure) After free-list try_allocate calls followed by
\* the matching try_deallocate of every live allocation, in any order, the
\* free list holds exactly one region: the whole backing region.
C13_FreeListClosure ==
    (fret.res = "Freed" /\ flive = EmptyBag /\ fpend = 0)
        => flist = <<Region(fspan.start, fspan.end - fspan.start)>>

\* The blocks of a region carved into j consecutive allocations of
\* normalized size LLNodeSize, and the state in which exactly they are live.
CarveBlocks(j) == {fspan.start + LLNodeSize * i : i \in 0..(j - 1)}
CarveRest(j) ==
    IF fspan.start + LLNodeSize * j = fspan.end
    THEN << >>
    ELSE <<Region(fspan.start + LLNodeSize * j,
                  fspan.end - fspan.start - LLNodeSize * j)>>
Carved(j) ==
    /\ FRunning /\ fpend = 0
    /\ {blk[1] : blk \in BagToSet(flive)} = CarveBlocks(j)
    /\ BagCardinality(flive) = j
    /\ \A blk \in BagToSet(flive) : FSizeAlign(blk[2]).size = LLNodeSize
    /\ flist = CarveRest(j)

\* C14 (free-list reverse-order coalescing) On a region carved into k
\* consecutive allocations of equal normalized size every one of the k
\* allocations succeeds, and deallocating them in reverse allocation order
\* leaves a single free region each time, the whole region at the end; a
\* second round of k allocations behaves the same.
C14_ReverseCoalescing ==
    \A j \in 0..((fspan.end - fspan.start) \div LLNodeSize) :
        Carved(j) =>
            /\ j < (fspan.end - fspan.start) \div LLNodeSize =>
                   \A layout \in {Layout(4, 4), Layout(8, 8)} :
                       LET o == FAllocate(FHeap(flist), layout, build, frev)
                       IN  o.res = "Ok" /\ o.p = fspan.start + LLNodeSize * j
            /\ j > 0 =>
                   \A blk \in BagToSet(flive) :
                       blk[1] = fspan.start + LLNodeSize * (j - 1) =>
                           FDeallocate(FHeap(flist), blk[1], blk[2]).list
                               = CarveRest(j - 1)

\* C15 (free-list reuse) After live allocations have been deallocated, a
\* try_allocate whose normalized size is no larger than some free region's
\* size succeeds and returns an address inside space that is free.
C15_FreeListReuse ==
    (fret.res = "Freed" /\ fpend = 0) =>
        \A layout \in {l \in FLayouts : l.align <= LLNodeAlign} :
            (\E i \in 1..Len(flist) : FSizeAlign(layout).size <= flist[i].size) =>
                LET o == FAllocate(FHeap(flist), layout, build, frev)
                IN  /\ o.res = "Ok"
                    /\ \E i \in 1..Len(flist) :
                           /\ flist[i].addr <= o.p
                           /\ o.p + FSizeAlign(layout).size <= end_addr(flist[i])

\* C16 (free-list non-overlap) The normalized byte ranges of any two live
\* allocations of the free-list engine are disjoint, and no live allocation
\* meets a region on the free list.
C16_FreeListNonOverlap ==
    /\ \A a, b \in BagToSet(flive) :
          (a # b \/ CopiesIn(a, flive) >= 2)
              => ~Overlap(a[1], FSizeAlign(a[2]).size, b[1], FSizeAlign(b[2]).size)
    /\ \A a \in BagToSet(flive) : \A i \in 1..Len(flist) :
          ~Overlap(a[1], FSizeAlign(a[2]).size, flist[i].addr, flist[i].size)

\* C17 (free-list address correctness) Every successful free-list
\* try_allocate(layout) returns p with p mod layout.align = 0,
\* p >= region start and p + layout.size <= region end.
C17_FreeListAddress ==
    fret.res = "Ok" =>
        /\ fret.p % fret.layout.align = 0
        /\ fspan.start <= fret.p
        /\ fret.p + fret.layout.size <= fspan.end

\* A try_allocate that returned an error to its caller.
Failed(res) == res \in {"Oom", "Overflowed", "Null"}

\* C18 (Oom saturation; mutex-guarded bump, buddy and free list) Once
\* try_allocate(layout) returns Oom, every later try_allocate with the same
\* layout returns Oom while no try_deallocate happens: no try_allocate step
\* turns a layout that gets Oom into one that gets anything else; and a
\* failed try_allocate leaves the allocator state unchanged.
C18_OomSaturation ==
    [][/\ (\E layout \in BLayouts : BTryAllocate(layout)) =>
              /\ \A l \in BLayouts :
                     BAllocate(bump, l, build).res = "Oom"
                         => BAllocate(bump', l, build).res = "Oom"
              /\ Failed(bret'.res) => bump' = bump
       /\ (\E layout \in DLayouts, fault \in BOOLEAN : DTryAllocate(layout, fault)) =>
              /\ \A l \in DLayouts :
                     BuddyAllocate(Heap(buddy, mem), l, build).res = "Oom"
                         => BuddyAllocate(Heap(buddy', mem'), l, build).res = "Oom"
              /\ Failed(dret'.res) => (buddy' = buddy /\ mem' = mem)
       /\ (\E layout \in FLayouts, fault \in BOOLEAN : FTryAllocate(layout, fault)) =>
              /\ \A l \in FLayouts :
                     FAllocate(FHeap(flist), l, build, frev).res = "Oom"
                         => FAllocate(FHeap(flist'), l, build, frev).res = "Oom"
              /\ Failed(fret'.res) => flist' = flist
      ]_vars

\* C19 (zeroed allocation) A successful try_allocate_zeroed(layout) returns
\* the address p that try_allocate returned, every byte of
\* [p, p + layout.size) is 0 on return and no byte outside that range is
\* changed by the zeroing; when try_allocate fails, its error is returned
\* and no byte is written.
C19_ZeroedAllocation ==
    [][\A t \in Threads :
          /\ \A layout \in ZLayouts :
                 (ZAllocCall(t, layout) /\ zpc'[t] = "az_write")
                     => zreg'[t].p = BAllocate(bump, layout, build).p
          /\ (zpc[t] = "az_write" /\ zpc'[t] = "idle") =>
                 /\ zret'.res = "Ok" /\ zret'.p = zreg[t].p
                 /\ Range(zreg[t].p, zreg[t].size) \cap zdirty' = {}
                 /\ zdirty' \ Range(zreg[t].p, zreg[t].size)
                        = zdirty \ Range(zreg[t].p, zreg[t].size)
          /\ \A layout \in ZLayouts :
                 (ZAllocCall(t, layout) /\ zpc'[t] = "idle") =>
                     /\ Failed(zret'.res)
                     /\ zret'.res = BAllocate(bump, layout, build).res
                     /\ zdirty' = zdirty
      ]_vars

\* A zeroed allocation has returned a block whose bytes were not all 0.
C19_Witness == zret.op = "alloc" /\ zret.res = "Ok" /\ zret.cleaned

\* C20 (zeroed deallocation ordering) try_deallocate_zeroed writes 0 over
\* exactly layout.size bytes at the address before the block is released to
\* the engine: between its two statements the bytes are written and the
\* block is still live, and no zero write falls on memory that is available
\* to, or was handed out by, another try_allocate.
C20_ZeroedDeallocOrder ==
    /\ ~zstray
    /\ \A t \in Threads :
          zpc[t] = "dz_second" =>
              /\ zreg[t].wrote = Range(zreg[t].p, zreg[t].size)
              /\ BagIn(<<zreg[t].p, zreg[t].size>>, blive)

\* A try_deallocate_zeroed has written its zeros and not yet released the
\* block while another thread is inside try_allocate_zeroed.
C20_Witness ==
    \E t, u \in Threads :
        /\ t # u
        /\ zpc[t] = "dz_second" /\ zreg[t].wrote # {}
        /\ zpc[u] = "az_write"

\* C21 (global-allocator adapter) alloc(layout) returns the address that
\* try_allocate produced when it succeeds and the null pointer when it
\* returns an error (Oom, Overflowed, Null); dealloc with a null pointer
\* aborts before touching the engine; dealloc with a non-null pointer calls
\* try_deallocate once and returns whatever that call reports.
C21_GlobalAdapter ==
    [][/\ \A layout \in GLayouts :
              GAlloc(layout) =>
                  LET o == BAllocate(bump, layout, build)
                  IN  /\ o.res = "Ok" =>
                             gret'.res = "returned" /\ gret'.ptr = o.p /\ o.p # 0
                      /\ Failed(o.res) => gret'.res = "returned" /\ gret'.ptr = 0
       /\ \A blk \in GDeallocArgs :
              GDealloc(blk) =>
                  IF blk[1] = 0
                  THEN gret'.res = "panic" /\ gret'.calls = 0 /\ bvars' = bvars
                  ELSE LET o == BDeallocate(bump, build)
                       IN  /\ gret'.calls = 1
                           /\ bump' = o.bump
                           /\ o.res # "panic" => gret'.res = "returned"
      ]_vars

\* After an alloc that returned null for an engine error, dealloc was handed
\* the null pointer and aborted.
C21_Witness ==
    gret.op = "dealloc" /\ gret.ptr = 0 /\ gret.res = "panic" /\ bfailed

\* C22 (use before init) For each runtime-initialised wrapper, a
\* try_allocate issued before init has been called aborts: it returns neither
\* an address nor an error value.
C22_UseBeforeInit ==
    (uret.res # "none" /\ ~uret.init) => uret.res = "panic"

\* C23 (const-embedded bump init is a no-op) init(start, length) with any
\* arguments, at any point of a sequence of operations, leaves the offset,
\* the live-allocation counter and the heap bounds unchanged, so every
\* try_allocate after it gives what it would have given without the init.
C23_ConstInitNoOp ==
    [][cret'.op = "init" =>
          /\ cbump' = cbump
          /\ ConstHeapEnd(cbump') = ConstHeapEnd(cbump)
          /\ \A layout \in CLayouts :
                 ConstAllocate(cbump', layout, build) = ConstAllocate(cbump, layout, build)
      ]_vars

\* init has been called while the caller holds a block.
C23_Witness == cret.op = "init" /\ clive > 0 /\ cbump.offset > 0

\* C24 (const-embedded bump refines lock-free bump) For every sequence of
\* try_allocate / try_deallocate / remaining calls made by one thread,
\* ConstBump<S> and a lock-free bump over a region of length S at the same
\* address return the same results: the same offsets from the heap start,
\* the same error kinds, the same remaining values and live counts.
C24_ConstRefinesLockless ==
    /\ cret.op \in {"alloc", "dealloc"} => cret.cres = cret.lres
    /\ cret.cres = "Ok" => cret.coff = cret.loff
    /\ ConstRemaining(cbump) = LocklessRemaining(lbump)
    /\ cbump.allocations = lbump.allocations

\* The smallest k with PAGE_SIZE * 2^k >= n.
CeilOrder(n) == CHOOSE k \in 0..(MAX_ORDER + 2) :
                    /\ BlockSize(k) >= n
                    /\ \A j \in 0..(k - 1) : BlockSize(j) < n

\* C25 (buddy order computation) The order used by buddy try_allocate and
\* try_deallocate for a layout is the smallest k with PAGE_SIZE * 2^k >=
\* padded size, so the block handed out is never smaller than the padded
\* request.
C25_BuddyOrder ==
    dret.res \in {"Ok", "Oom", "Freed"} =>
        /\ LayoutOrder(dret.layout) = CeilOrder(PaddedSize(dret.layout))
        /\ BlockSize(LayoutOrder(dret.layout)) >= PaddedSize(dret.layout)

\* The bytes of the block of order o at address a.
BlockBytes(a, o) == a..(a + BlockSize(o) - 1)

\* C26 (buddy allocate at order K) The block is taken from the smallest
\* order S >= K whose free-area is non-empty, and Oom is returned iff no
\* order in K..MAX_ORDER has a free block; on success one block B leaves
\* free-area S, each free-area j in K..S-1 gains exactly one block, no other
\* free-area changes, and the gained blocks together with the returned
\* block are pairwise disjoint and cover B exactly.
C26_BuddyAllocate ==
    [][\A layout \in DLayouts :
          (DTryAllocate(layout, FALSE) /\ dret'.res \in {"Ok", "Oom"}) =>
              LET H == Heap(buddy, mem)
                  G == Heap(buddy', mem')
                  K == LayoutOrder(layout)
                  nonempty == {o \in K..MAX_ORDER : FreeOf(H, o) # {}}
                  S == CHOOSE o \in nonempty : \A x \in nonempty : o <= x
                  gained(j) == FreeOf(G, j) \ FreeOf(H, j)
              IN  /\ dret'.res = "Oom" <=> nonempty = {}
                  /\ dret'.res = "Ok" =>
                         /\ \E B \in FreeOf(H, S) :
                                /\ FreeOf(G, S) = (FreeOf(H, S) \ {B}) \cup gained(S)
                                /\ B \notin FreeOf(G, S)
                                /\ BlockBytes(B, S) =
                                       BlockBytes(dret'.p, K) \cup
                                       UNION {UNION {BlockBytes(a, j) : a \in gained(j)} : j \in K..(S - 1)}
                         /\ \A j \in K..(S - 1) :
                                /\ FreeOf(H, j) \subseteq FreeOf(G, j)
                                /\ Cardinality(gained(j)) = 1
                                /\ \A a \in gained(j) :
                                       ~Overlap(a, BlockSize(j), dret'.p, BlockSize(K))
                         /\ \A i, j \in K..(S - 1) : \A a \in gained(i), b \in gained(j) :
                                i # j => ~Overlap(a, BlockSize(i), b, BlockSize(j))
                         /\ gained(S) = {}
                         /\ \A o \in Orders \ (K..S) : FreeOf(G, o) = FreeOf(H, o)
      ]_vars

\* A request of order 0 has been served by splitting the one block of
\* order 2: one block of order 0 and one of order 1 were gained.
C26_Witness ==
    /\ dret.res = "Ok" /\ LayoutOrder(dret.layout) = 0
    /\ BagCardinality(dlive) = 1
    /\ Cardinality(FreeBlocks(0)) = 1
    /\ Cardinality(FreeBlocks(1)) = 1
    /\ FreeBlocks(2) = {}

\* The bytes on the free-areas of the engine H.
FreeBytes(H) ==
    UNION {UNION {BlockBytes(a, o) : a \in FreeOf(H, o)} : o \in Orders}

\* The buddy of the block of order o at address a, by offsets from the
\* region start.
BuddyOf(H, a, o) == H.base + Xor(a - H.base, BlockSize(o))

\* The block of order o that holds address a.
BlockHolding(H, a, o) == H.base + ((a - H.base) \div BlockSize(o)) * BlockSize(o)

\* C27 (buddy coalescing requires the buddy to be free) In a try_deallocate
\* a merge at order j happens only if the buddy of the freed or merged block
\* is on free-area j, and it removes exactly those two blocks: the bytes on
\* the free-areas after the call are the bytes that were there before and
\* the bytes of the freed block; a block leaves free-area j only as the
\* buddy of the block of order j that holds the freed address; and no block
\* that is still allocated lies in a free block.
C27_CoalesceNeedsFreeBuddy ==
    [][\A blk \in BagToSet(dlive) :
          (DTryDeallocate(blk, FALSE) /\ dret'.res = "Freed") =>
              LET H == Heap(buddy, mem)
                  G == Heap(buddy', mem')
                  K == LayoutOrder(blk[2])
              IN  /\ FreeBytes(G) = FreeBytes(H) \cup BlockBytes(blk[1], K)
                  /\ \A j \in Orders : \A a \in FreeOf(H, j) \ FreeOf(G, j) :
                         j >= K /\ a = BuddyOf(H, BlockHolding(H, blk[1], j), j)
                  /\ \A b \in BagToSet(dlive') :
                         BlockBytes(b[1], LayoutOrder(b[2])) \cap FreeBytes(G) = {}
      ]_vars

\* The free-areas of the engine H as sets of blocks.
FreeAreas(H) == [o \in Orders |-> FreeOf(H, o)]

RECURSIVE CoalesceWalk(_, _, _)
\* The walk C28 describes, on free-areas F: at order j the buddy is
\* address XOR (PAGE_SIZE * 2^j); if it is on free-area j and j < MAX_ORDER
\* it is removed and the walk continues at j + 1 from min(address, buddy);
\* otherwise the block is put on free-area j and the walk stops.
CoalesceWalk(F, address, j) ==
    LET buddy_addr == Xor(address, BlockSize(j))
    IN  IF j < MAX_ORDER /\ buddy_addr \in F[j]
        THEN CoalesceWalk([F EXCEPT ![j] = @ \ {buddy_addr}],
                          Min(address, buddy_addr), j + 1)
        ELSE [F EXCEPT ![j] = @ \cup {address}]

\* C28 (buddy coalescing walk) try_deallocate(address, order K) starts
\* coalescing at order K (free-areas below K are not modified), after each
\* merge continues at order j+1 with the merged block's address
\* min(address, buddy), and stops at the first order where the buddy is
\* absent or at MAX_ORDER; no free-area above MAX_ORDER is accessed (the
\* call does not abort on an index out of range).
C28_CoalesceWalk ==
    [][\A blk \in BagToSet(dlive) :
          DTryDeallocate(blk, FALSE) =>
              LET H == Heap(buddy, mem)
                  G == Heap(buddy', mem')
                  K == LayoutOrder(blk[2])
              IN  /\ dret'.res = "Freed"
                  /\ \A j \in 0..(K - 1) : G.list_areas[j] = H.list_areas[j]
                  /\ FreeAreas(G) = CoalesceWalk(FreeAreas(H), blk[1], K)
      ]_vars

\* The order of the block init puts on the free-areas.
TopOrder == ilog2(div_ceil(buddy.size, PAGE_SIZE))

\* C29 (buddy no-free-buddy-pair invariant) Whenever try_allocate or
\* try_deallocate has returned, no free-area of order k below the top order
\* holds both a block and that block's buddy (the block at offset
\* x XOR PAGE_SIZE * 2^k from the region start).
C29_NoFreeBuddyPair ==
    dret.res \in {"none", "Ok", "Oom", "Freed"} =>
        \A k \in 0..(TopOrder - 1) : \A a \in FreeBlocks(k) :
            BuddyOf(buddy, a, k) \notin FreeBlocks(k)

\* A try_deallocate has returned after merging at every order below the
\* top one: the only free block is of the top order.
C29_Witness ==
    /\ dret.res = "Freed"
    /\ FreeBlocks(TopOrder) # {}
    /\ \A k \in 0..(TopOrder - 1) : FreeBlocks(k) = {}

\* C30 (buddy addresses are region-relative) For a region whose start is
\* aligned to the node alignment but not to PAGE_SIZE * 2^top_order, every
\* block that try_deallocate leaves on a free-area lies entirely inside
\* [start, start + length) and at an offset from start that is a multiple
\* of its block size.
C30_RegionRelative ==
    (dret.res = "Freed" /\ buddy.base % NodeSize = 0
                        /\ buddy.base % BlockSize(TopOrder) # 0) =>
        \A o \in Orders : \A a \in FreeBlocks(o) :
            /\ buddy.base <= a
            /\ a + BlockSize(o) <= buddy.base + buddy.size
            /\ (a - buddy.base) % BlockSize(o) = 0

\* The free region of the list that holds address p.
RegionHolding(list, p) ==
    {i \in 1..Len(list) : list[i].addr <= p /\ p < end_addr(list[i])}

\* C31 (free-list leading-gap refusal) A successful free-list try_allocate
\* never takes its address from a free region R whose leading gap
\* align_up(R.start, align) - R.start is non-zero but smaller than a node:
\* the region that held the returned address starts at that address or at
\* least a node size below it.
C31_LeadingGapRefusal ==
    [][\A layout \in FLayouts, fault \in BOOLEAN :
           (FTryAllocate(layout, fault) /\ fret'.res = "Ok") =>
               \A i \in RegionHolding(flist, fret'.p) :
                   LET gap == fret'.p - flist[i].addr
                   IN  gap = 0 \/ gap >= LLNodeSize]_vars

\* C32 (free-list exact fit) When the region R selected by try_allocate is
\* filled exactly (alloc_end = R.end) the call returns alloc_start
\* successfully, R is detached and no remnant is inserted; when
\* alloc_end < R.end the remnant (alloc_end, R.end - alloc_end) is inserted
\* at the head of the list.
C32_ExactFit ==
    [][\A layout \in FLayouts :
           LET sa == FSizeAlign(layout)
               found == find_region(flist, sa.size, sa.align, build)
               R == flist[found.idx]
               alloc_end == found.alloc_start + sa.size
           IN  (FTryAllocate(layout, FALSE) /\ found.res = "Ok") =>
                   IF alloc_end = end_addr(R)
                   THEN /\ fret'.res = "Ok"
                        /\ fret'.p = found.alloc_start
                        /\ flist' = Unlink(flist, found.idx)
                   ELSE flist' = <<Region(alloc_end, end_addr(R) - alloc_end)>>
                                     \o Unlink(flist, found.idx)]_vars

\* The fit test of a free region for a normalized (size, align): the
\* aligned start plus the size ends inside the region and the trailing
\* excess is 0 or at least a node.
FitsRegion(R, sa) ==
    LET alloc_start == ((R.addr + sa.align - 1) \div sa.align) * sa.align
        alloc_end == alloc_start + sa.size
    IN  /\ alloc_end <= end_addr(R)
        /\ (end_addr(R) - alloc_end = 0 \/ end_addr(R) - alloc_end >= LLNodeSize)

\* C33 (free-list first fit) try_allocate returns an address in the first
\* region, in list order from the head, that passes the fit test; the
\* regions before it stay in the list with unchanged size and order (the
\* list after the call is the list without that region, behind at most one
\* new head node); and Oom is returned if and only if no region passes.
C33_FirstFit ==
    [][\A layout \in FLayouts :
           LET sa == FSizeAlign(layout)
               fits == {i \in 1..Len(flist) : FitsRegion(flist[i], sa)}
               first == CHOOSE i \in fits : \A j \in fits : i <= j
           IN  FTryAllocate(layout, FALSE) =>
                   /\ fret'.res = "Oom" <=> fits = {}
                   /\ fits # {} =>
                          /\ fret'.res = "Ok"
                          /\ flist[first].addr <= fret'.p
                          /\ fret'.p < end_addr(flist[first])
                          /\ \E k \in 0..1 :
                                 /\ Len(flist') = Len(flist) - 1 + k
                                 /\ SubSeq(flist', k + 1, Len(flist'))
                                        = Unlink(flist, first)]_vars

\* The bytes covered by the regions of a list.
Covered(list) ==
    UNION {flist_i.addr..(end_addr(flist_i) - 1) :
               flist_i \in {list[i] : i \in 1..Len(list)}}

\* No node of the list is immediately followed by the region that starts
\* at its end.
NoAdjacentSuccessor(list) ==
    \A i \in 1..(Len(list) - 1) : end_addr(list[i]) # list[i + 1].addr

\* C34 (free-list adjacency invariant) Whenever free-list try_deallocate
\* has returned, no list node is immediately followed in the list by the
\* region that starts exactly at its end, and every freed region is
\* reachable from the head: the insertion of a block of the backing region
\* puts its bytes on the list and the coalescing pass keeps every listed
\* byte on it.
C34_AdjacencyInvariant ==
    /\ [](fret.res = "Freed" => NoAdjacentSuccessor(flist))
    /\ [][/\ \A blk \in BagToSet(flive) :
                 (FDeallocAdd(blk, FALSE) /\ fret'.res = "Adding" /\ FInRegion(blk[1])) =>
                     (blk[1]..(blk[1] + FSizeAlign(blk[2]).size - 1))
                         \subseteq Covered(flist')
          /\ FDeallocCombine => Covered(flist') = Covered(flist)]_vars

\* C35 (mutex-guarded operations are atomic) No other thread observes or
\* modifies the engine between two steps of one operation: while a
\* free-list try_deallocate has inserted its region and not yet run the
\* coalescing pass, the only step taken on the engine is that coalescing
\* pass, which completes the one operation in flight.
C35_OperationsAtomic ==
    [][fpend > 0 => (FDeallocCombine /\ fpend' = 0)]_vars

\* C36 (bump deallocation frame) A bump try_deallocate that leaves the live
\* counter above 0 changes only the counter, which it decrements by one (in
\* usize arithmetic): `next`, `start`, `end` and so remaining() are
\* unchanged, whatever pointer and layout are passed.  For the lock-free
\* engine: fetch_sub changes the counter alone, and the step after a
\* fetch_sub that did not return 1 changes nothing.
C36_DeallocFrame ==
    [][/\ \A blk \in FrameArgs :
              (FrameDeallocate(blk) /\ bret'.res = "Freed" /\ bump'.allocations > 0) =>
                  /\ bump' = [bump EXCEPT !.allocations = (@ - 1) % (MaxAddr + 1)]
                  /\ sub_or_default(bump'.end, bump'.next) = BRemaining
       /\ \A t \in Threads :
              /\ \A blk \in BagToSet(llive) :
                     LDeallocSub(t, blk) =>
                         lbump' = [lbump EXCEPT !.allocations = (@ - 1) % (MaxAddr + 1)]
              /\ (LDeallocReset(t) /\ treg[t].prev # 1) =>
                     /\ lbump' = lbump
                     /\ LocklessRemaining(lbump') = LocklessRemaining(lbump)
      ]_vars

\* A try_deallocate of the locked engine has returned with allocations
\* still live and the cursor where the allocations left it.
C36_Witness ==
    /\ bret.res = "Freed"
    /\ bump.allocations > 0
    /\ bump.next > bump.start

\* C37 (lock-free bump, live allocations stay below the cursor) Under any
\* interleaving of try_allocate and matched try_deallocate calls by several
\* threads, whenever the cursor is reset to `start` no allocation is live,
\* and every live allocation [p, p + size) of a returned call satisfies
\* p + size <= next.
C37_LiveBelowCursor ==
    /\ [][\A t \in Threads :
              (LDeallocReset(t) /\ LShouldReset(treg[t].prev)) => llive = EmptyBag]_vars
    /\ [](\A blk \in BagToSet(llive) : blk[1] + blk[2] <= lbump.next)

RECURSIVE SumBlockSizes(_)
\* The sizes of a set of (address, order) blocks, added up.
SumBlockSizes(S) ==
    IF S = {} THEN 0
    ELSE LET b == CHOOSE x \in S : TRUE
         IN  BlockSize(b[2]) + SumBlockSizes(S \ {b})

\* The blocks on the free-areas and the blocks of the live allocations, each
\* as (address, order).
FreeBlockSet == UNION {{<<a, k>> : a \in FreeBlocks(k)} : k \in Orders}
LiveBlockSet == {<<blk[1], LayoutOrder(blk[2])>> : blk \in BagToSet(dlive)}

\* C38 (buddy conservation) In every state reached from init by buddy
\* try_allocate and matched try_deallocate calls, the blocks on all
\* free-areas and the blocks of all live allocations are pairwise disjoint,
\* their sizes sum to the region length, and each free-area's nr_free is
\* the number of blocks reachable from its head.
C38_BuddyConservation ==
    dret.res \in {"none", "Ok", "Oom", "Freed"} =>
        /\ \A x, y \in FreeBlockSet \cup LiveBlockSet :
               x # y => ~Overlap(x[1], BlockSize(x[2]), y[1], BlockSize(y[2]))
        /\ FreeBlockSet \cap LiveBlockSet = {}
        /\ \A blk \in BagToSet(dlive) : CopiesIn(blk, dlive) = 1
        /\ SumBlockSizes(FreeBlockSet) + SumBlockSizes(LiveBlockSet) = buddy.size
        /\ \A k \in Orders :
               buddy.list_areas[k].nr_free = Cardinality(FreeBlocks(k))

RECURSIVE SumRegionSizes(_, _)
\* The sizes of the regions of a list from the i-th on, added up.
SumRegionSizes(list, i) ==
    IF i > Len(list) THEN 0 ELSE list[i].size + SumRegionSizes(list, i + 1)

RECURSIVE SumLiveSizes(_)
\* The normalized sizes of a set of live allocations, added up, each as
\* often as it is live.
SumLiveSizes(S) ==
    IF S = {} THEN 0
    ELSE LET blk == CHOOSE x \in S : TRUE
         IN  CopiesIn(blk, flive) * FSizeAlign(blk[2]).size + SumLiveSizes(S \ {blk})

\* C39 (free-list conservation) In every state reached from init by
\* free-list try_allocate and matched try_deallocate calls, no address is on
\* the list twice (the list is acyclic), every free region starts at a
\* node-aligned address inside the backing region and has at least the node
\* size, free regions are pairwise disjoint, and the sizes of all free
\* regions plus the normalized sizes of all live allocations sum to the
\* region length.
C39_FreeListConservation ==
    FRunning =>
        /\ \A i \in 1..Len(flist) :
               /\ flist[i].addr % LLNodeAlign = 0
               /\ fspan.start <= flist[i].addr
               /\ end_addr(flist[i]) <= fspan.end
               /\ flist[i].size >= LLNodeSize
        /\ \A i, j \in 1..Len(flist) :
               i # j => ~Overlap(flist[i].addr, flist[i].size,
                                 flist[j].addr, flist[j].size)
        /\ SumRegionSizes(flist, 1) + SumLiveSizes(BagToSet(flive))
               = fspan.end - fspan.start

\* C40 (lock-free bump init is once-only) The first init(start, size) fixes
\* start, end and the initial cursor; any later init call, with the same or
\* different arguments, issued while the first is running or after
\* allocations, leaves start, end, the cursor and the live counter
\* unchanged: the closure runs only on an empty cell, and once the cell is
\* initialised no step of an init call changes the engine and no step at all
\* changes start or end.
C40_InitOnce ==
    [][/\ \A t \in Threads : \A r \in OnceRegions :
              OnceInitRun(t, r) =>
                  /\ ~uinit
                  /\ lbump'.start = r[1] /\ lbump'.end = r[1] + r[2]
                  /\ lbump'.next = r[1] /\ lbump'.allocations = 0
       /\ uinit =>
              /\ uinit'
              /\ lbump'.start = lbump.start /\ lbump'.end = lbump.end
              /\ \A t \in Threads :
                     (OnceInitCall(t) \/ OnceInitWake(t)
                          \/ \E r \in OnceRegions : OnceInitRun(t, r))
                         => lbump' = lbump
      ]_vars

\* An init call has returned from an initialised cell while an allocation
\* is live.
C40_Witness ==
    /\ uret = InitReturned(TRUE)
    /\ lbump.allocations > 0
    /\ lbump.next > lbump.start
    /\ llive # EmptyBag

====
